---- MODULE Spec2Model ----
(***************************************************************************)
(* Off-chain order validation of MARKET.js.                                *)
(*                                                                         *)
(* ContractWrapper.tradeOrderAsync is a chain of awaited backend calls.    *)
(* Every await is one step of the model.  The chain is shared with other   *)
(* parties and may change between two awaits, so the answer of each        *)
(* backend read is drawn from a bounded set at the moment of the read.     *)
(* `answer' holds what the await just completed returned, `local' the      *)
(* constants of the body that a later statement still reads, and `calls'   *)
(* the backend calls the wrapper has issued, in order.                     *)
(***************************************************************************)
EXTENDS Integers, Sequences, FiniteSets, TLC

----------------------------------------------------------------------------
(* Bounds of the model *)

MaxFee == 1
MaxQty == 1
MaxPrice == 2
MaxExpiration == 1
MaxHalfSeconds == 3
MaxCollateral == 2
MaxMultiplier == 2
MaxFormulaQty == 2
MaxFilled == 2
MaxStoreOps == 3
MaxOrderQty == 2
DecimalPlaces == 1
MaxTicks == 4
MaxCallers == 2

----------------------------------------------------------------------------
(* Addresses and values *)

NULL_ADDRESS == "0x0000000000000000000000000000000000000000"
Maker == "0xmaker"
Taker == "0xtaker"
FeeRecipient == "0xfeerecipient"
ContractAddress == "0xcontract"
MktTokenAddress == "0xmkt"
CollateralTokenAddress == "0xcollateral"

\* txParams.from may be missing
Undefined == "undefined"

\* Date.now() is in milliseconds, getCurrentUnixTimestampSec divides by 1000
MsPerSec == 1000

FeeValues == 0..MaxFee
QtyValues == (0 - MaxQty)..MaxQty
PriceValues == 0..MaxPrice
ExpirationValues == 0..MaxExpiration
NowMsValues == {k * (MsPerSec \div 2) : k \in 0..MaxHalfSeconds}
BalanceValues == 0..MaxFee
CollateralValues == 0..MaxCollateral
AccountSets == SUBSET {Maker, Taker}

\* MarketError, the flat error taxonomy
MarketError ==
  {"ContractAlreadySettled", "InvalidTaker", "OrderExpired",
   "OrderFilledOrCancelled", "BuySellMismatch", "InvalidSignature",
   "UserNotEnabledForContract", "InsufficientBalanceForTransfer",
   "InsufficientAllowanceForTransfer", "InsufficientCollateralBalance",
   "UserHasNoAssociatedPositions"}

\* an Error thrown by assert.assert: it carries a message, no MarketError tag
AssertionError == "AssertionError"

\* the terms of the deployed market contract, immutable once deployed
DeployedTerms == [priceFloor |-> 0, priceCap |-> 2, qtyMultiplier |-> 1]

----------------------------------------------------------------------------
(* Pure helpers *)

\* BigNumber.isPositive(): true for zero and above (the sign of 0 is +)
isPositive(x) == x >= 0

\* a slip: the sign is kept
absoluteValue_Identity(x) == x

absoluteValue(x) == IF x < 0 THEN 0 - x ELSE x

\* Utils.getOrderHash: the digest of the order's canonical fields
getOrderHash(order) ==
  <<order.contractAddress, order.maker, order.taker, order.feeRecipient,
    order.makerFee, order.takerFee, order.price, order.expirationTimestamp,
    order.salt, order.orderQty>>

\* a signature is what ecrecover gets out of it: the signer and the digest
SignOrder(signer, hash) == [signer |-> signer, hash |-> hash]

\* a signature whose s part was replaced by '0x' recovers nothing
TamperedSignature == [signer |-> "none", hash |-> <<>>]

\* isValidSignatureAsync(orderLib, signedOrder, orderHash)
isValidSignature(signedOrder, orderHash) ==
  /\ signedOrder.ecSignature.hash = orderHash
  /\ signedOrder.ecSignature.signer = signedOrder.maker

\* a slip: the loss is not floored at zero
calculateNeededCollateral_NoFloor(priceFloor, priceCap, qtyMultiplier, qty, price) ==
  LET maxLoss == IF isPositive(qty) THEN price - priceFloor ELSE priceCap - price
  IN  maxLoss * absoluteValue(qty) * qtyMultiplier

\* Utils.calculateNeededCollateral
calculateNeededCollateral(priceFloor, priceCap, qtyMultiplier, qty, price) ==
  LET maxLoss ==
        IF isPositive(qty)
          THEN (IF price <= priceFloor THEN 0 ELSE price - priceFloor)
          ELSE (IF price >= priceCap THEN 0 ELSE priceCap - price)
  IN  maxLoss * absoluteValue(qty) * qtyMultiplier

----------------------------------------------------------------------------
(* State *)

VARIABLES
  terms,            \* PRICE_FLOOR, PRICE_CAP, QTY_MULTIPLIER of the market contract
  contractSets,     \* _contractSetByMarketContractAddress: the addresses stored
  tokenContracts,   \* _tokenContractsByAddress: the token addresses stored
  pc,               \* the await the tradeOrderAsync call is at
  signedOrder,      \* argument signedOrder
  fillQty,          \* argument fillQty
  txParams,         \* argument txParams
  local,            \* constants of the body that a later statement reads
  answer,           \* what the await completed last returned
  calls,            \* backend calls issued so far, in order
  result            \* what the returned promise settled with, if it has

VARIABLES
  formula,          \* Utils.calculateNeededCollateral: the terms and its applications
  chainQty,         \* the filled or cancelled quantity of each order, on chain
  store,            \* OrderFilledCancelledLazyStore: the entries it holds
  prev,             \* the entries it held before its last operation
  log,              \* the operations done on the store, in order
  calcPc,           \* the await the RemainingFillableCalculator call is at
  calcOrder,        \* RemainingFillableCalculator._signedOrder
  calcLocal,        \* constants of computeRemainingMakerFillable
  calcCalls,        \* backend calls the calculator has issued, in order
  calcResult        \* what the calculator's promise settled with, if it has

VARIABLES
  chain,            \* the unallocated collateral of maker and sender, on chain
  feeStep,          \* two calls that differ in fillQty only: their fee steps
  depositAmount,    \* argument depositAmount of depositCollateralAsync
  depositLocal,     \* constants of the body of depositCollateralAsync
  locked,           \* setAsyncExcludingInterval: let locked
  timer,            \* what the callback of the interval did, in order
  contractSetByAddress, \* _contractSetByMarketContractAddress: its entries
  lookup,           \* the calls of _getContractSetByMarketContractAddressAsync
  created           \* the ContractSets created so far, in order

\* the state of tradeOrderAsync and of the wrapper
tradeVars ==
  <<terms, contractSets, tokenContracts, pc, signedOrder, fillQty, txParams,
    local, answer, calls, result, chain>>

formulaVars == <<formula>>

storeVars == <<chainQty, store, prev, log>>

calculatorVars == <<calcPc, calcOrder, calcLocal, calcCalls, calcResult>>

feeVars == <<feeStep>>

depositVars == <<depositAmount, depositLocal>>

intervalVars == <<locked, timer>>

mappingVars == <<contractSetByAddress, lookup, created>>

otherVars == <<feeVars, depositVars, intervalVars, mappingVars>>

\* what a call of tradeOrderAsync leaves alone
outsideTrade == <<formulaVars, storeVars, calculatorVars, otherVars>>

vars == <<tradeVars, formulaVars, storeVars, calculatorVars, otherVars>>

Pending == "pending"
OrderTransactionInfo == "OrderTransactionInfo"
BackendError == "BackendError"

NoOrder ==
  [contractAddress |-> ContractAddress, maker |-> Maker, taker |-> NULL_ADDRESS,
   feeRecipient |-> FeeRecipient, makerFee |-> 0, takerFee |-> 0, price |-> 0,
   expirationTimestamp |-> 0, salt |-> 0, orderQty |-> 0, remainingQty |-> 0,
   ecSignature |-> TamperedSignature]

NoLocal ==
  [taker |-> NULL_ADDRESS, orderHash |-> <<>>, isMakerEnabled |-> FALSE,
   makerCollateralBalance |-> 0, takerCollateralBalance |-> 0,
   neededCollateralMaker |-> 0]

NoAnswer == [none |-> TRUE]

\* what is left of an order of quantity q: between nothing and all of it
RemainingValues(q) ==
  {r \in QtyValues : absoluteValue(r) <= absoluteValue(q) /\ r * q >= 0}

\* the orders a caller may pass: any fields, signed by the maker, by somebody
\* else, or with a damaged signature
Orders ==
  UNION {
    LET order ==
          [contractAddress |-> ContractAddress, maker |-> Maker, taker |-> t,
           feeRecipient |-> FeeRecipient, makerFee |-> mf, takerFee |-> tf,
           price |-> p, expirationTimestamp |-> e, salt |-> 0, orderQty |-> q]
    IN  {[contractAddress |-> ContractAddress, maker |-> Maker, taker |-> t,
          feeRecipient |-> FeeRecipient, makerFee |-> mf, takerFee |-> tf,
          price |-> p, expirationTimestamp |-> e, salt |-> 0, orderQty |-> q,
          remainingQty |-> r, ecSignature |-> sig] :
           r \in RemainingValues(q),
           sig \in {SignOrder(Maker, getOrderHash(order)),
                    SignOrder(Taker, getOrderHash(order)),
                    TamperedSignature}} :
      t \in {NULL_ADDRESS, Taker}, mf \in FeeValues, tf \in FeeValues,
      p \in PriceValues, e \in ExpirationValues, q \in QtyValues}

\* no call of tradeOrderAsync was made yet
TradeIdle ==
  /\ terms = DeployedTerms
  /\ contractSets = {}
  /\ tokenContracts = {}
  /\ pc = "idle"
  /\ signedOrder = NoOrder
  /\ fillQty = 0
  /\ txParams = [from |-> Undefined]
  /\ local = NoLocal
  /\ answer = NoAnswer
  /\ calls = <<>>
  /\ result = Pending
  /\ chain = [makerCollateralBalance |-> 0, takerCollateralBalance |-> 0]

\* the formula was applied to nothing
NoFormula ==
  [priceFloor |-> 0, priceCap |-> 0, qtyMultiplier |-> 0, price |-> 0,
   applied |-> <<>>]

FormulaIdle == formula = NoFormula

\* the keys of the store: (contract address, order hash)
OrderHashes == {"0xhashA", "0xhashB"}

Keys == {<<ContractAddress, h>> : h \in OrderHashes}

\* a store that holds no entry
EmptyStore == [k \in {} |-> 0]

\* a new OrderFilledCancelledLazyStore, nothing filled on chain
StoreIdle ==
  /\ chainQty = [k \in Keys |-> 0]
  /\ store = EmptyStore
  /\ prev = EmptyStore
  /\ log = <<>>

NoCalcLocal ==
  [method |-> "none", makerAvailableCollateral |-> 0, neededCollateral |-> 0,
   alreadyFilledOrCancelled |-> 0,
   makerFillable |-> [kind |-> "pending", n |-> 0],
   takerAvailableCollateral |-> 0]

\* no RemainingFillableCalculator was built yet
CalculatorIdle ==
  /\ calcPc = "idle"
  /\ calcOrder = NoOrder
  /\ calcLocal = NoCalcLocal
  /\ calcCalls = <<>>
  /\ calcResult = [kind |-> Pending, n |-> 0]

\* no pair of calls is compared
NoFeeStep ==
  [makerFee |-> 0, takerFee |-> 0, orderQty |-> 0, fillQtys |-> <<>>,
   chain |-> [accounts |-> {}, makerBalance |-> 0, makerAllowance |-> 0,
              takerBalance |-> 0, takerAllowance |-> 0],
   outcomes |-> <<>>]

FeeIdle == feeStep = NoFeeStep

NoDepositLocal ==
  [isUserEnabled |-> FALSE, callerCollateralTokenBalance |-> 0,
   callerAllowance |-> 0]

\* depositCollateralAsync was not called yet
DepositIdle ==
  /\ depositAmount = 0
  /\ depositLocal = NoDepositLocal

\* setAsyncExcludingInterval was not called yet
IntervalIdle ==
  /\ locked = FALSE
  /\ timer = <<>>

\* the callers of _getContractSetByMarketContractAddressAsync
Callers == 1..MaxCallers

NoLookup == [at |-> "idle", address |-> "", returned |-> 0]

\* a new ContractWrapper: the mapping is {}
MappingIdle ==
  /\ contractSetByAddress = [a \in {} |-> 0]
  /\ lookup = [c \in Callers |-> NoLookup]
  /\ created = <<>>

OthersIdle ==
  /\ FeeIdle
  /\ DepositIdle
  /\ IntervalIdle
  /\ MappingIdle

Init ==
  /\ TradeIdle
  /\ FormulaIdle
  /\ StoreIdle
  /\ CalculatorIdle
  /\ OthersIdle

----------------------------------------------------------------------------
(* The checks of tradeOrderAsync *)

\* const taker = txParams.from ? txParams.from : constants.NULL_ADDRESS
EffectiveTaker(params) ==
  IF params.from # Undefined THEN params.from ELSE NULL_ADDRESS

\* a slip: the open sentinel is not exempted
isInvalidTaker_NoSentinel(order, taker) ==
  order.taker # taker

isInvalidTaker(order, taker) ==
  order.taker # NULL_ADDRESS /\ order.taker # taker

\* a slip: an order expiring now counts as expired
isExpired_AtNow(order, nowMs) ==
  order.expirationTimestamp * MsPerSec <= nowMs

\* expirationTimestamp.isLessThan(new BigNumber(Date.now() / 1000))
isExpired(order, nowMs) ==
  order.expirationTimestamp * MsPerSec < nowMs

\* a slip: what remains of a sell order, negative, counts as nothing
isFilledOrCancelled_NotPositive(order) ==
  order.remainingQty <= 0

isFilledOrCancelled(order) ==
  order.remainingQty = 0

\* a slip: the comparison is inverted
isBuySellMismatch_Inverted(order, qty) ==
  isPositive(order.orderQty) = isPositive(qty)

isBuySellMismatch(order, qty) ==
  isPositive(order.orderQty) # isPositive(qty)

\* a slip: the expiration is checked before the taker
SyncChecks_ExpirationFirst(order, qty, taker, nowMs) ==
  IF isExpired(order, nowMs) THEN "OrderExpired"
  ELSE IF isInvalidTaker(order, taker) THEN "InvalidTaker"
  ELSE IF isFilledOrCancelled(order) THEN "OrderFilledOrCancelled"
  ELSE IF isBuySellMismatch(order, qty) THEN "BuySellMismatch"
  ELSE "ok"

\* lines 130-144: the checks between the settlement read and the signature
\* check, none of which awaits
SyncChecks(order, qty, taker, nowMs) ==
  IF isInvalidTaker(order, taker) THEN "InvalidTaker"
  ELSE IF isExpired(order, nowMs) THEN "OrderExpired"
  ELSE IF isFilledOrCancelled(order) THEN "OrderFilledOrCancelled"
  ELSE IF isBuySellMismatch(order, qty) THEN "BuySellMismatch"
  ELSE "ok"

\* a slip: the answer of the verification is not looked at
SignatureCheck_Ignored(validSignature) ==
  "ok"

SignatureCheck(validSignature) ==
  IF ~validSignature THEN "InvalidSignature" ELSE "ok"

\* a slip: rejects only when neither is enabled
EnabledCheck_Neither(isMakerEnabled, isTakerEnabled) ==
  IF ~isMakerEnabled /\ ~isTakerEnabled
    THEN "UserNotEnabledForContract" ELSE "ok"

EnabledCheck(isMakerEnabled, isTakerEnabled) ==
  IF ~isMakerEnabled \/ ~isTakerEnabled
    THEN "UserNotEnabledForContract" ELSE "ok"

\* balance.isLessThan(fee), allowance.isLessThan(fee)
BalanceCheck(balance, fee) ==
  IF balance < fee THEN "InsufficientBalanceForTransfer" ELSE "ok"

AllowanceCheck(allowance, fee) ==
  IF allowance < fee THEN "InsufficientAllowanceForTransfer" ELSE "ok"

\* a slip: the taker's collateral is not compared
CollateralCheck_MakerOnly(makerBalance, takerBalance, neededMaker, neededTaker) ==
  IF makerBalance < neededMaker THEN "InsufficientCollateralBalance" ELSE "ok"

\* lines 226-232
CollateralCheck(makerBalance, takerBalance, neededMaker, neededTaker) ==
  IF makerBalance < neededMaker THEN "InsufficientCollateralBalance"
  ELSE IF takerBalance < neededTaker THEN "InsufficientCollateralBalance"
  ELSE "ok"

----------------------------------------------------------------------------
(* tradeOrderAsync, one action per await *)

\* a slip: the maker's allowance is read before the maker's balance
AwaitOrder_AllowanceFirst ==
  <<"getContractSet", "isSettled", "isValidSignature",
    "isMakerEnabled", "isTakerEnabled",
    "makersMktAllowance", "makerMktBalance",
    "takerMktBalance", "takersMktAllowance",
    "makerCollateralBalance", "takerCollateralBalance",
    "neededCollateralMaker", "neededCollateralTaker", "send">>

\* the awaits of the body of tradeOrderAsync, in program order
AwaitOrder ==
  <<"getContractSet", "isSettled", "isValidSignature",
    "isMakerEnabled", "isTakerEnabled",
    "makerMktBalance", "makersMktAllowance",
    "takerMktBalance", "takersMktAllowance",
    "makerCollateralBalance", "takerCollateralBalance",
    "neededCollateralMaker", "neededCollateralTaker", "send">>

\* the position of an await in the body
Position(label) ==
  CHOOSE k \in DOMAIN AwaitOrder : AwaitOrder[k] = label

\* the await that follows a given one
After(label) == AwaitOrder[Position(label) + 1]

\* the call is suspended at the given await
At(label) == pc = label /\ result = Pending

\* _getContractSetByMarketContractAddressAsync: the reads a lookup issues.
\* A stored contract set is returned as it is, a new one is built from two
\* reads of the market contract.
ContractSetReads(address) ==
  IF address \in contractSets
    THEN <<>>
    ELSE << <<"MARKET_COLLATERAL_POOL_ADDRESS", address>>,
            <<"COLLATERAL_TOKEN_ADDRESS", address>> >>

\* return Promise.reject(new Error(error)), or an exception leaving the body:
\* the body stops where it is
Reject(error) ==
  /\ pc' = pc
  /\ result' = error

\* the body goes on to its next await
Continue ==
  /\ pc' = After(pc)
  /\ result' = result

\* either of the two, by the outcome of a check
Settle(outcome) ==
  IF outcome = "ok" THEN Continue ELSE Reject(outcome)

\* a call of tradeOrderAsync(orderLib, signedOrder, fillQty, txParams)
TradeOrderAsync ==
  /\ pc = "idle"
  /\ \E order \in Orders, qty \in QtyValues, from \in {Maker, Taker, Undefined} :
        /\ signedOrder' = order
        /\ fillQty' = qty
        /\ txParams' = [from |-> from]
  /\ pc' = AwaitOrder[1]
  /\ UNCHANGED <<outsideTrade, chain, terms, contractSets, tokenContracts, local, answer, calls, result>>

\* line 118
AwaitGetContractSet ==
  /\ At("getContractSet")
  /\ calls' = calls \o ContractSetReads(signedOrder.contractAddress)
  /\ contractSets' = contractSets \cup {signedOrder.contractAddress}
  /\ tokenContracts' = tokenContracts \cup {CollateralTokenAddress}
  /\ Continue
  /\ UNCHANGED <<outsideTrade, chain, terms, signedOrder, fillQty, txParams, local, answer>>

\* lines 122-146: the settlement read and the checks that need no backend
AwaitIsSettled ==
  /\ At("isSettled")
  /\ calls' = Append(calls, <<"isSettled", signedOrder.contractAddress>>)
  /\ \E isContractSettled \in BOOLEAN :
        IF isContractSettled
          THEN /\ answer' = [isContractSettled |-> TRUE]
               /\ Reject("ContractAlreadySettled")
               /\ local' = local
          ELSE \E nowMs \in NowMsValues :
                 LET taker == EffectiveTaker(txParams)
                 IN  /\ answer' = [isContractSettled |-> FALSE, now |-> nowMs]
                     /\ local' = [local EXCEPT
                                    !.taker = taker,
                                    !.orderHash = getOrderHash(signedOrder)]
                     /\ Settle(SyncChecks(signedOrder, fillQty, taker, nowMs))
  /\ UNCHANGED <<outsideTrade, chain, terms, contractSets, tokenContracts, signedOrder, fillQty, txParams>>

\* lines 148-152
AwaitIsValidSignature ==
  /\ At("isValidSignature")
  /\ LET validSignature == isValidSignature(signedOrder, local.orderHash)
     IN  /\ calls' = Append(calls, <<"isValidSignature", signedOrder.maker>>)
         /\ answer' = [validSignature |-> validSignature]
         /\ Settle(SignatureCheck(validSignature))
  /\ UNCHANGED <<outsideTrade, chain, terms, contractSets, tokenContracts, signedOrder, fillQty,
                 txParams, local>>

\* lines 154-157
AwaitIsMakerEnabled ==
  /\ At("isMakerEnabled")
  /\ \E enabled \in BOOLEAN :
        /\ calls' = Append(calls, <<"isUserEnabledForContract", signedOrder.maker>>)
        /\ answer' = [isMakerEnabled |-> enabled]
        /\ local' = [local EXCEPT !.isMakerEnabled = enabled]
  /\ Continue
  /\ UNCHANGED <<outsideTrade, chain, terms, contractSets, tokenContracts, signedOrder, fillQty, txParams>>

\* lines 158-165
AwaitIsTakerEnabled ==
  /\ At("isTakerEnabled")
  /\ \E enabled \in BOOLEAN :
        /\ calls' = Append(calls, <<"isUserEnabledForContract", local.taker>>)
        /\ answer' = [isTakerEnabled |-> enabled]
        /\ Settle(EnabledCheck(local.isMakerEnabled, enabled))
  /\ UNCHANGED <<outsideTrade, chain, terms, contractSets, tokenContracts, signedOrder, fillQty,
                 txParams, local>>

\* getBalanceAsync(mktTokenContract.address, owner) and the check on its answer
GetBalanceAsync(owner, fee) ==
  /\ \E balance \in BalanceValues :
        /\ calls' = Append(calls, <<"balanceOf", owner>>)
        /\ answer' = [balance |-> balance]
        /\ Settle(BalanceCheck(balance, fee))
  /\ tokenContracts' = tokenContracts \cup {MktTokenAddress}
  /\ UNCHANGED <<outsideTrade, chain, terms, contractSets, signedOrder, fillQty, txParams, local>>

\* getAllowanceAsync(mktTokenContract.address, owner, feeRecipient) and the
\* check on its answer.  assert.isSenderAddressAsync throws unless the owner
\* is one of the accounts of the supplied web3.
GetAllowanceAsync(owner, fee) ==
  /\ \E accounts \in AccountSets :
        IF owner \in accounts
          THEN /\ \E allowance \in BalanceValues :
                     /\ calls' = calls \o << <<"getAccounts", owner>>,
                                             <<"allowance", owner>> >>
                     /\ answer' = [accounts |-> accounts, allowance |-> allowance]
                     /\ Settle(AllowanceCheck(allowance, fee))
               /\ tokenContracts' = tokenContracts \cup {MktTokenAddress}
          ELSE /\ calls' = Append(calls, <<"getAccounts", owner>>)
               /\ answer' = [accounts |-> accounts]
               /\ Reject(AssertionError)
               /\ tokenContracts' = tokenContracts
  /\ UNCHANGED <<outsideTrade, chain, terms, contractSets, signedOrder, fillQty, txParams, local>>

\* lines 167-173
AwaitMakerMktBalance ==
  /\ At("makerMktBalance")
  /\ GetBalanceAsync(signedOrder.maker, signedOrder.makerFee)

\* lines 175-185
AwaitMakersMktAllowance ==
  /\ At("makersMktAllowance")
  /\ GetAllowanceAsync(signedOrder.maker, signedOrder.makerFee)

\* lines 187-193
AwaitTakerMktBalance ==
  /\ At("takerMktBalance")
  /\ GetBalanceAsync(local.taker, signedOrder.takerFee)

\* lines 195-205
AwaitTakersMktAllowance ==
  /\ At("takersMktAllowance")
  /\ GetAllowanceAsync(local.taker, signedOrder.takerFee)

\* getUserUnallocatedCollateralBalanceAsync(contractAddress, user)
GetUserUnallocatedCollateralBalanceAsync(user, field) ==
  /\ \E balance \in CollateralValues :
        /\ calls' = calls \o ContractSetReads(signedOrder.contractAddress)
                          \o << <<"getUserAccountBalance", user>> >>
        /\ answer' = [balance |-> balance]
        /\ local' = [local EXCEPT ![field] = balance]
        /\ chain' = [chain EXCEPT ![field] = balance]
  /\ contractSets' = contractSets \cup {signedOrder.contractAddress}
  /\ Continue
  /\ UNCHANGED <<outsideTrade, terms, tokenContracts, signedOrder, fillQty, txParams>>

\* lines 207-209
AwaitMakerCollateralBalance ==
  /\ At("makerCollateralBalance")
  /\ GetUserUnallocatedCollateralBalanceAsync(signedOrder.maker, "makerCollateralBalance")

\* lines 210-212
AwaitTakerCollateralBalance ==
  /\ At("takerCollateralBalance")
  /\ GetUserUnallocatedCollateralBalanceAsync(local.taker, "takerCollateralBalance")

\* calculateNeededCollateralAsync(contractAddress, qty, price): its value
calculateNeededCollateralAsync(qty, price) ==
  calculateNeededCollateral(terms.priceFloor, terms.priceCap,
                            terms.qtyMultiplier, qty, price)

\* calculateNeededCollateralAsync(contractAddress, qty, price): its reads
TermsReads(address) ==
  ContractSetReads(address) \o
  << <<"PRICE_FLOOR", address>>, <<"PRICE_CAP", address>>,
     <<"QTY_MULTIPLIER", address>> >>

\* lines 214-218
AwaitNeededCollateralMaker ==
  /\ At("neededCollateralMaker")
  /\ LET neededCollateralMaker ==
           calculateNeededCollateralAsync(fillQty, signedOrder.price)
     IN  /\ calls' = calls \o TermsReads(signedOrder.contractAddress)
         /\ answer' = [needed |-> neededCollateralMaker]
         /\ local' = [local EXCEPT !.neededCollateralMaker = neededCollateralMaker]
  /\ contractSets' = contractSets \cup {signedOrder.contractAddress}
  /\ Continue
  /\ UNCHANGED <<outsideTrade, chain, terms, tokenContracts, signedOrder, fillQty, txParams>>

\* a slip: the taker's side is computed for the direction of the fill
AwaitNeededCollateralTaker_SameDirection ==
  /\ At("neededCollateralTaker")
  /\ LET neededCollateralTaker ==
           calculateNeededCollateralAsync(fillQty, signedOrder.price)
     IN  /\ calls' = calls \o TermsReads(signedOrder.contractAddress)
         /\ answer' = [needed |-> neededCollateralTaker]
         /\ Settle(CollateralCheck(local.makerCollateralBalance,
                                   local.takerCollateralBalance,
                                   local.neededCollateralMaker,
                                   neededCollateralTaker))
  /\ contractSets' = contractSets \cup {signedOrder.contractAddress}
  /\ UNCHANGED <<outsideTrade, chain, terms, tokenContracts, signedOrder, fillQty, txParams, local>>

\* lines 220-232
AwaitNeededCollateralTaker ==
  /\ At("neededCollateralTaker")
  /\ LET neededCollateralTaker ==
           calculateNeededCollateralAsync(fillQty * (0 - 1), signedOrder.price)
     IN  /\ calls' = calls \o TermsReads(signedOrder.contractAddress)
         /\ answer' = [needed |-> neededCollateralTaker]
         /\ Settle(CollateralCheck(local.makerCollateralBalance,
                                   local.takerCollateralBalance,
                                   local.neededCollateralMaker,
                                   neededCollateralTaker))
  /\ contractSets' = contractSets \cup {signedOrder.contractAddress}
  /\ UNCHANGED <<outsideTrade, chain, terms, tokenContracts, signedOrder, fillQty, txParams, local>>

\* a slip: a fill the backend refused is submitted once more
AwaitSend_Retries ==
  /\ At("send")
  /\ calls' = Append(calls, <<"tradeOrderTx.send", txParams.from>>)
  /\ \E mined \in BOOLEAN :
        /\ answer' = [mined |-> mined]
        /\ pc' = pc
        /\ result' = IF mined THEN OrderTransactionInfo
                     ELSE IF \E k \in DOMAIN calls : calls[k][1] = "tradeOrderTx.send"
                            THEN BackendError ELSE Pending
  /\ UNCHANGED <<outsideTrade, chain, terms, contractSets, tokenContracts, signedOrder, fillQty,
                 txParams, local>>

\* lines 234-256: the fill is submitted; the backend mines it or refuses it
AwaitSend ==
  /\ At("send")
  /\ calls' = Append(calls, <<"tradeOrderTx.send", txParams.from>>)
  /\ \E mined \in BOOLEAN :
        /\ answer' = [mined |-> mined]
        /\ pc' = pc
        /\ result' = IF mined THEN OrderTransactionInfo ELSE BackendError
  /\ UNCHANGED <<outsideTrade, chain, terms, contractSets, tokenContracts, signedOrder, fillQty,
                 txParams, local>>

Next ==
  \/ TradeOrderAsync
  \/ AwaitGetContractSet
  \/ AwaitIsSettled
  \/ AwaitIsValidSignature
  \/ AwaitIsMakerEnabled
  \/ AwaitIsTakerEnabled
  \/ AwaitMakerMktBalance
  \/ AwaitMakersMktAllowance
  \/ AwaitTakerMktBalance
  \/ AwaitTakersMktAllowance
  \/ AwaitMakerCollateralBalance
  \/ AwaitTakerCollateralBalance
  \/ AwaitNeededCollateralMaker
  \/ AwaitNeededCollateralTaker
  \/ AwaitSend

Spec == Init /\ [][Next]_vars

----------------------------------------------------------------------------
(* tradeOrderAsync while other transactions are mined *)

\* the collateral balances the body reads, each with the await that reads it
CollateralFields == {"makerCollateralBalance", "takerCollateralBalance"}

\* a transaction of another client (a fill of the same maker's orders, a
\* withdrawal) is mined while the body is suspended at an await, after it
\* has read the balance: the account's unallocated collateral goes down
ExternalFill ==
  /\ pc # "idle"
  /\ result = Pending
  /\ \E field \in CollateralFields :
        /\ Position(pc) > Position(field)
        /\ \E amount \in 1..chain[field] :
              chain' = [chain EXCEPT ![field] = @ - amount]
  /\ UNCHANGED <<outsideTrade, terms, contractSets, tokenContracts, pc,
                 signedOrder, fillQty, txParams, local, answer, calls, result>>

NextRace ==
  \/ Next
  \/ ExternalFill

SpecRace == Init /\ [][NextRace]_vars

----------------------------------------------------------------------------
(* the fee step of tradeOrderAsync, for two fill quantities of one order *)

\* what the chain answers to the reads of the fee step
FeeChains ==
  [accounts : AccountSets,
   makerBalance : BalanceValues, makerAllowance : BalanceValues,
   takerBalance : BalanceValues, takerAllowance : BalanceValues]

\* the quantities of the orders and of the fills
FeeQtyValues == (0 - MaxOrderQty)..MaxOrderQty

\* the fill quantities of an order of quantity orderQty: of its direction
\* and at most its size
FillQtysOf(orderQty) ==
  {q \in FeeQtyValues : q * orderQty > 0 /\ absoluteValue(q) <= absoluteValue(orderQty)}

\* a slip: the fees are charged in proportion to the quantity filled
FeeStep_ProRated(order, qty, c) ==
  LET makerFee == (order.makerFee * absoluteValue(qty)) \div absoluteValue(order.orderQty)
      takerFee == (order.takerFee * absoluteValue(qty)) \div absoluteValue(order.orderQty)
  IN  IF BalanceCheck(c.makerBalance, makerFee) # "ok"
        THEN BalanceCheck(c.makerBalance, makerFee)
      ELSE IF Maker \notin c.accounts THEN AssertionError
      ELSE IF AllowanceCheck(c.makerAllowance, makerFee) # "ok"
        THEN AllowanceCheck(c.makerAllowance, makerFee)
      ELSE IF BalanceCheck(c.takerBalance, takerFee) # "ok"
        THEN BalanceCheck(c.takerBalance, takerFee)
      ELSE IF Taker \notin c.accounts THEN AssertionError
      ELSE AllowanceCheck(c.takerAllowance, takerFee)

\* lines 167-205 as a function of the order, of the quantity to fill and of
\* what the chain answers: the four reads and their comparisons, in order,
\* the allowance reads with the assertion on the owner
FeeStep(order, qty, c) ==
  IF BalanceCheck(c.makerBalance, order.makerFee) # "ok"
    THEN BalanceCheck(c.makerBalance, order.makerFee)
  ELSE IF Maker \notin c.accounts THEN AssertionError
  ELSE IF AllowanceCheck(c.makerAllowance, order.makerFee) # "ok"
    THEN AllowanceCheck(c.makerAllowance, order.makerFee)
  ELSE IF BalanceCheck(c.takerBalance, order.takerFee) # "ok"
    THEN BalanceCheck(c.takerBalance, order.takerFee)
  ELSE IF Taker \notin c.accounts THEN AssertionError
  ELSE AllowanceCheck(c.takerAllowance, order.takerFee)

outsideFeeStep ==
  <<tradeVars, formulaVars, storeVars, calculatorVars, depositVars,
    intervalVars, mappingVars>>

\* one order, one state of the chain, and two quantities to fill
FeeStepBegin ==
  /\ feeStep = NoFeeStep
  /\ \E makerFee \in FeeValues, takerFee \in FeeValues,
        orderQty \in FeeQtyValues \ {0}, c \in FeeChains :
        \E q1 \in FillQtysOf(orderQty), q2 \in FillQtysOf(orderQty) :
          feeStep' = [makerFee |-> makerFee, takerFee |-> takerFee,
                      orderQty |-> orderQty, fillQtys |-> <<q1, q2>>,
                      chain |-> c, outcomes |-> <<>>]
  /\ UNCHANGED outsideFeeStep

\* the fee step runs for the next of the quantities
FeeStepRun ==
  /\ feeStep # NoFeeStep
  /\ Len(feeStep.outcomes) < Len(feeStep.fillQtys)
  /\ feeStep' = [feeStep EXCEPT !.outcomes =
                   Append(@, FeeStep(feeStep,
                                     feeStep.fillQtys[Len(feeStep.outcomes) + 1],
                                     feeStep.chain))]
  /\ UNCHANGED outsideFeeStep

NextFeeStep ==
  \/ FeeStepBegin
  \/ FeeStepRun

SpecFeeStep == Init /\ [][NextFeeStep]_vars

----------------------------------------------------------------------------
(* depositCollateralAsync, one action per await *)

\* the awaits of the body, in program order
DepositAwaitOrder ==
  <<"depositGetContractSet", "depositIsUserEnabled", "depositBalance",
    "depositAllowance", "depositSend">>

DepositAfter(label) ==
  DepositAwaitOrder[(CHOOSE k \in DOMAIN DepositAwaitOrder :
                       DepositAwaitOrder[k] = label) + 1]

DepositContinue ==
  /\ pc' = DepositAfter(pc)
  /\ result' = result

\* const caller: string = String(txParams.from)
Caller(params) == params.from

\* held.isLessThan(depositAmount)
isLessThanAmount(held, amount) == held < amount

\* what a call of depositCollateralAsync leaves alone
outsideDeposit ==
  <<formulaVars, storeVars, calculatorVars, feeVars, intervalVars,
    mappingVars, chain, terms, signedOrder, fillQty, local>>

\* a call of depositCollateralAsync(marketContractAddress, depositAmount, txParams)
DepositCollateralAsync ==
  /\ pc = "idle"
  /\ \E amount \in CollateralValues, from \in {Maker, Taker, Undefined} :
        /\ depositAmount' = amount
        /\ txParams' = [from |-> from]
  /\ pc' = DepositAwaitOrder[1]
  /\ UNCHANGED <<outsideDeposit, depositLocal, contractSets, tokenContracts,
                 answer, calls, result>>

\* lines 396-398
DepositAwaitGetContractSet ==
  /\ At("depositGetContractSet")
  /\ calls' = calls \o ContractSetReads(ContractAddress)
  /\ contractSets' = contractSets \cup {ContractAddress}
  /\ tokenContracts' = tokenContracts \cup {CollateralTokenAddress}
  /\ DepositContinue
  /\ UNCHANGED <<outsideDeposit, depositVars, txParams, answer>>

\* lines 401-409
DepositAwaitIsUserEnabled ==
  /\ At("depositIsUserEnabled")
  /\ calls' = Append(calls, <<"isUserEnabledForContract", Caller(txParams)>>)
  /\ \E isUserEnabled \in BOOLEAN :
        /\ answer' = [isUserEnabled |-> isUserEnabled]
        /\ depositLocal' = [depositLocal EXCEPT !.isUserEnabled = isUserEnabled]
        /\ IF ~isUserEnabled
             THEN Reject("UserNotEnabledForContract")
             ELSE DepositContinue
  /\ UNCHANGED <<outsideDeposit, depositAmount, txParams, contractSets,
                 tokenContracts>>

\* lines 412-418
DepositAwaitBalance ==
  /\ At("depositBalance")
  /\ calls' = Append(calls, <<"balanceOf", Caller(txParams)>>)
  /\ \E balance \in CollateralValues :
        /\ answer' = [balance |-> balance]
        /\ depositLocal' = [depositLocal EXCEPT
                              !.callerCollateralTokenBalance = balance]
        /\ IF isLessThanAmount(balance, depositAmount)
             THEN Reject("InsufficientBalanceForTransfer")
             ELSE DepositContinue
  /\ tokenContracts' = tokenContracts \cup {CollateralTokenAddress}
  /\ UNCHANGED <<outsideDeposit, depositAmount, txParams, contractSets>>

\* lines 421-430: getAllowanceAsync asserts that the owner is an account of
\* the supplied web3 before it reads the allowance
DepositAwaitAllowance ==
  /\ At("depositAllowance")
  /\ \E accounts \in AccountSets :
        IF Caller(txParams) \in accounts
          THEN \E allowance \in CollateralValues :
                 /\ calls' = calls \o << <<"getAccounts", Caller(txParams)>>,
                                         <<"allowance", Caller(txParams)>> >>
                 /\ answer' = [accounts |-> accounts, allowance |-> allowance]
                 /\ depositLocal' = [depositLocal EXCEPT
                                       !.callerAllowance = allowance]
                 /\ IF isLessThanAmount(allowance, depositAmount)
                      THEN Reject("InsufficientAllowanceForTransfer")
                      ELSE DepositContinue
          ELSE /\ calls' = Append(calls, <<"getAccounts", Caller(txParams)>>)
               /\ answer' = [accounts |-> accounts]
               /\ depositLocal' = depositLocal
               /\ Reject(AssertionError)
  /\ tokenContracts' = tokenContracts \cup {CollateralTokenAddress}
  /\ UNCHANGED <<outsideDeposit, depositAmount, txParams, contractSets>>

\* lines 432-434: the deposit is submitted; the backend mines it or refuses it
DepositAwaitSend ==
  /\ At("depositSend")
  /\ calls' = Append(calls, <<"depositTokensForTradingTx.send", Caller(txParams)>>)
  /\ \E mined \in BOOLEAN :
        /\ answer' = [mined |-> mined]
        /\ pc' = pc
        /\ result' = IF mined THEN "txHash" ELSE BackendError
  /\ UNCHANGED <<outsideDeposit, depositVars, txParams, contractSets,
                 tokenContracts>>

NextDeposit ==
  \/ DepositCollateralAsync
  \/ DepositAwaitGetContractSet
  \/ DepositAwaitIsUserEnabled
  \/ DepositAwaitBalance
  \/ DepositAwaitAllowance
  \/ DepositAwaitSend

SpecDeposit == Init /\ [][NextDeposit]_vars

----------------------------------------------------------------------------
(* IntervalUtils.setAsyncExcludingInterval: the callback of the interval *)

\* how often the events of a kind occurred
Events(kinds) == Cardinality({k \in DOMAIN timer : timer[k] \in kinds})

\* the ticks of the interval so far
Ticks == Events({"invoked", "skipped"})

\* the invocations of fn that have not settled
InFlight == Events({"invoked"}) - Events({"resolved", "rejected"})

outsideInterval ==
  <<tradeVars, formulaVars, storeVars, calculatorVars, feeVars, depositVars,
    mappingVars>>

\* the interval fires: if (locked) return; else { locked = true; fn() ...
Tick ==
  /\ Ticks < MaxTicks
  /\ IF locked
       THEN /\ timer' = Append(timer, "skipped")
            /\ locked' = locked
       ELSE /\ timer' = Append(timer, "invoked")
            /\ locked' = TRUE
  /\ UNCHANGED outsideInterval

\* await fn() resolves: locked = false
FnResolves ==
  /\ InFlight > 0
  /\ timer' = Append(timer, "resolved")
  /\ locked' = FALSE
  /\ UNCHANGED outsideInterval

\* await fn() rejects: catch (err) { onError(err); } locked = false.  The
\* assignment is not in a finally: when onError throws, the callback ends
\* before it
FnRejects ==
  /\ InFlight > 0
  /\ \E onErrorThrows \in BOOLEAN :
        IF onErrorThrows
          THEN /\ timer' = timer \o <<"rejected", "onError threw">>
               /\ locked' = locked
          ELSE /\ timer' = timer \o <<"rejected", "onError returned">>
               /\ locked' = FALSE
  /\ UNCHANGED outsideInterval

NextInterval ==
  \/ Tick
  \/ FnResolves
  \/ FnRejects

SpecInterval == Init /\ [][NextInterval]_vars

----------------------------------------------------------------------------
(* _getContractSetByMarketContractAddressAsync, called by several callers *)

\* the market contract addresses the callers pass: one in two letter
\* cases, and another
MarketAddresses == {"0xABCD", "0xabcd", "0xef01"}

\* marketContractAddress.toLowerCase()
toLowerCase(address) ==
  IF address = "0xABCD" THEN "0xabcd" ELSE address

\* const normalizedMarketAddress = marketContractAddress.toLowerCase()
normalizedMarketAddress(address) == toLowerCase(address)

outsideMapping ==
  <<tradeVars, formulaVars, storeVars, calculatorVars, feeVars, depositVars,
    intervalVars>>

\* lines 789-799: a caller enters; a stored entry is returned at once,
\* otherwise the caller starts creating one and waits for the first read
LookupBegin(c) ==
  /\ lookup[c].at \in {"idle", "returned"}
  /\ \E address \in MarketAddresses :
        IF normalizedMarketAddress(address) \in DOMAIN contractSetByAddress
          THEN lookup' = [lookup EXCEPT ![c] =
                 [at |-> "returned", address |-> address,
                  returned |-> contractSetByAddress[normalizedMarketAddress(address)]]]
          ELSE lookup' = [lookup EXCEPT ![c] =
                 [at |-> "MARKET_COLLATERAL_POOL_ADDRESS", address |-> address,
                  returned |-> 0]]
  /\ UNCHANGED <<outsideMapping, contractSetByAddress, created>>

\* lines 817-820: await marketContract.MARKET_COLLATERAL_POOL_ADDRESS
LookupAwaitPoolAddress(c) ==
  /\ lookup[c].at = "MARKET_COLLATERAL_POOL_ADDRESS"
  /\ lookup' = [lookup EXCEPT ![c].at = "COLLATERAL_TOKEN_ADDRESS"]
  /\ UNCHANGED <<outsideMapping, contractSetByAddress, created>>

\* lines 821-825: the token is read and a new ContractSet is made, known
\* here by its rank among those created
LookupAwaitTokenAddress(c) ==
  /\ lookup[c].at = "COLLATERAL_TOKEN_ADDRESS"
  /\ created' = Append(created, normalizedMarketAddress(lookup[c].address))
  /\ lookup' = [lookup EXCEPT ![c].at = "created",
                              ![c].returned = Len(created) + 1]
  /\ UNCHANGED <<outsideMapping, contractSetByAddress>>

\* lines 801-805: the await of the creation resumes; the ContractSet is
\* stored under the normalized address, whatever is there, and returned
LookupStore(c) ==
  /\ lookup[c].at = "created"
  /\ contractSetByAddress' =
       [a \in DOMAIN contractSetByAddress
              \cup {normalizedMarketAddress(lookup[c].address)} |->
          IF a = normalizedMarketAddress(lookup[c].address)
            THEN lookup[c].returned
            ELSE contractSetByAddress[a]]
  /\ lookup' = [lookup EXCEPT ![c].at = "returned"]
  /\ UNCHANGED <<outsideMapping, created>>

NextMapping ==
  \/ \E c \in Callers : LookupBegin(c)
  \/ \E c \in Callers : LookupAwaitPoolAddress(c)
  \/ \E c \in Callers : LookupAwaitTokenAddress(c)
  \/ \E c \in Callers : LookupStore(c)

SpecMapping == Init /\ [][NextMapping]_vars

----------------------------------------------------------------------------
(* Utils.calculateNeededCollateral, applied to bounded inputs *)

MultiplierValues == 0..MaxMultiplier
FormulaQtyValues == (0 - MaxFormulaQty)..MaxFormulaQty

\* the terms and the price the formula is applied to; nothing orders them
FormulaInputs ==
  {[priceFloor |-> f, priceCap |-> c, qtyMultiplier |-> m, price |-> p,
    applied |-> <<>>] :
     f \in PriceValues, c \in PriceValues, m \in MultiplierValues,
     p \in PriceValues}

InitCollateral ==
  /\ TradeIdle
  /\ formula \in FormulaInputs
  /\ StoreIdle
  /\ CalculatorIdle
  /\ OthersIdle

\* one more application, to a quantity of either direction
CalculateNeededCollateral ==
  /\ Len(formula.applied) < 2
  /\ \E qty \in FormulaQtyValues :
        formula' =
          [formula EXCEPT !.applied =
             Append(@, [qty |-> qty,
                        needed |-> calculateNeededCollateral(
                                     formula.priceFloor, formula.priceCap,
                                     formula.qtyMultiplier, qty, formula.price)])]
  /\ UNCHANGED <<otherVars, tradeVars, storeVars, calculatorVars>>

NextCollateral == CalculateNeededCollateral

SpecCollateral == InitCollateral /\ [][NextCollateral]_vars

----------------------------------------------------------------------------
(* OrderFilledCancelledLazyStore, the filled or cancelled quantity cache *)

\* a slip: no entry is ever found
isCached_Never(s, key) == FALSE

\* the store holds an entry for the key
isCached(s, key) == key \in DOMAIN s

\* the store with one more entry
setQtyFilledOrCancelled(s, key, qty) ==
  [k \in DOMAIN s \cup {key} |-> IF k = key THEN qty ELSE s[k]]

\* a slip: the entry stays
deleteQtyFilledOrCancelled_Keeps(s, key) == s

\* a slip: every entry goes
deleteQtyFilledOrCancelled_Clears(s, key) == EmptyStore

\* deleteQtyFilledOrCancelled(contractAddress, orderHash): the entry of the
\* key goes, if there is one
deleteQtyFilledOrCancelled(s, key) ==
  [k \in DOMAIN s \ {key} |-> s[k]]

\* a slip: the entries stay
deleteAll_Keeps(s) == s

\* deleteAll()
deleteAll(s) == EmptyStore

\* getQtyFilledOrCancelledAsync(contractAddress, orderHash): a hit returns the
\* entry, a miss reads the quantity on chain, stores it and returns it
GetQtyFilledOrCancelledAsync ==
  /\ Len(log) < MaxStoreOps
  /\ \E key \in Keys :
        IF isCached(store, key)
          THEN /\ store' = store
               /\ log' = Append(log, [op |-> "lookup", key |-> key,
                                      value |-> store[key], reads |-> 0,
                                      onChain |-> chainQty[key]])
          ELSE /\ store' = setQtyFilledOrCancelled(store, key, chainQty[key])
               /\ log' = Append(log, [op |-> "lookup", key |-> key,
                                      value |-> chainQty[key], reads |-> 1,
                                      onChain |-> chainQty[key]])
  /\ prev' = store
  /\ UNCHANGED <<otherVars, chainQty, tradeVars, formulaVars, calculatorVars>>

DeleteQtyFilledOrCancelled ==
  /\ Len(log) < MaxStoreOps
  /\ \E key \in Keys :
        /\ store' = deleteQtyFilledOrCancelled(store, key)
        /\ log' = Append(log, [op |-> "delete", key |-> key, outcome |-> "returned"])
  /\ prev' = store
  /\ UNCHANGED <<otherVars, chainQty, tradeVars, formulaVars, calculatorVars>>

DeleteAll ==
  /\ Len(log) < MaxStoreOps
  /\ store' = deleteAll(store)
  /\ log' = Append(log, [op |-> "deleteAll", outcome |-> "returned"])
  /\ prev' = store
  /\ UNCHANGED <<otherVars, chainQty, tradeVars, formulaVars, calculatorVars>>

\* somebody fills or cancels one more unit of an order, on chain
Fill ==
  /\ \E key \in Keys :
        /\ chainQty[key] < MaxFilled
        /\ chainQty' = [chainQty EXCEPT ![key] = @ + 1]
  /\ UNCHANGED <<otherVars, store, prev, log, tradeVars, formulaVars, calculatorVars>>

NextStore ==
  \/ GetQtyFilledOrCancelledAsync
  \/ DeleteQtyFilledOrCancelled
  \/ DeleteAll
  \/ Fill

SpecStore == Init /\ [][NextStore]_vars

----------------------------------------------------------------------------
(* BigNumber values of the calculator.  A value is finite, kept as an      *)
(* integer count of the smallest decimal unit, or Infinity with a sign, or *)
(* NaN.  bignumber.js keeps DECIMAL_PLACES = 20 decimals of a quotient and *)
(* rounds half up; the model keeps DecimalPlaces of them.                  *)

Scale == 10 ^ DecimalPlaces

Finite(n) == [kind |-> "finite", n |-> n]
Infinity(sign) == [kind |-> "Infinity", n |-> sign]
NaN == [kind |-> "NaN", n |-> 0]

\* new BigNumber(x) of an integer
BigNumberOf(x) == Finite(x * Scale)

signOf(n) == IF n < 0 THEN 0 - 1 ELSE 1

\* x.dividedBy(y) of two finite values: n / 0 is Infinity, 0 / 0 is NaN
dividedBy(x, y) ==
  IF y.n = 0
    THEN (IF x.n = 0 THEN NaN ELSE Infinity(signOf(x.n)))
    ELSE LET num == absoluteValue(x.n) * Scale
             den == absoluteValue(y.n)
         IN  Finite(signOf(x.n) * signOf(y.n) * ((2 * num + den) \div (2 * den)))

\* x.times(y) of any value by a finite whole number
times(x, y) ==
  CASE x.kind = "NaN" -> NaN
    [] x.kind = "Infinity" ->
         (IF y.n = 0 THEN NaN ELSE Infinity(x.n * signOf(y.n)))
    [] OTHER -> Finite(x.n * (y.n \div Scale))

\* x.minus(y) of two finite values
minus(x, y) == Finite(x.n - y.n)

\* x.isLessThan(y), neither being NaN
isLessThan(x, y) ==
  CASE x.kind = "finite" /\ y.kind = "finite" -> x.n < y.n
    [] x.kind = "Infinity" -> x.n < 0 /\ ~(y.kind = "Infinity" /\ y.n < 0)
    [] OTHER -> y.n > 0

\* BigNumber.min(x, y): the lesser value, sign included; NaN if either is
BigNumberMin(x, y) ==
  IF x.kind = "NaN" \/ y.kind = "NaN" THEN NaN
  ELSE IF isLessThan(x, y) THEN x ELSE y

----------------------------------------------------------------------------
(* RemainingFillableCalculator.computeRemainingMakerFillable, one action   *)
(* per await                                                               *)

CalcQtyValues == (0 - MaxOrderQty)..MaxOrderQty

\* the orders a calculator may be built for
CalcOrders ==
  {[NoOrder EXCEPT !.taker = t, !.makerFee = mf, !.takerFee = tf,
                   !.price = p, !.orderQty = q, !.remainingQty = q] :
     t \in {NULL_ADDRESS, Taker}, mf \in FeeValues, tf \in FeeValues,
     p \in PriceValues, q \in CalcQtyValues}

\* what the chain may hold as filled or cancelled of an order of quantity q:
\* a quantity of the order's direction, at most the order's
FilledValues(q) ==
  {f \in CalcQtyValues : absoluteValue(f) <= absoluteValue(q) /\ f * q >= 0}

\* the awaits of computeRemainingMakerFillable, in program order
CalcAwaitOrder ==
  <<"makerFeeAllowance", "makerFeeFunds", "makerAvailableCollateral",
    "neededCollateral", "alreadyFilledOrCancelled", "returned">>

\* the awaits of computeRemainingTakerFillable that follow the await of
\* computeRemainingMakerFillable, in program order
CalcTakerAwaitOrder ==
  <<"takerAvailableCollateral", "takerFeeAllowance", "takerFeeFunds",
    "takerNeededCollateral", "takerReturned">>

CalcAfter(label) ==
  LET awaits == CalcAwaitOrder \o CalcTakerAwaitOrder
  IN  awaits[(CHOOSE k \in DOMAIN awaits : awaits[k] = label) + 1]

CalcAt(label) == calcPc = label /\ calcResult.kind = Pending

\* Promise.reject(new Error(error)), or an exception leaving the body
CalcReject(error) ==
  /\ calcPc' = calcPc
  /\ calcResult' = [kind |-> error, n |-> 0]

CalcContinue ==
  /\ calcPc' = CalcAfter(calcPc)
  /\ calcResult' = calcResult

\* what the calculator leaves alone in the wrapper and in tradeOrderAsync
outsideWrapperCaches ==
  <<terms, pc, signedOrder, fillQty, txParams, local, answer, calls, result,
    chain>>

\* new RemainingFillableCalculator(...).computeRemainingMakerFillable()
ComputeRemainingMakerFillable ==
  /\ calcPc = "idle"
  /\ \E order \in CalcOrders : calcOrder' = order
  /\ calcPc' = CalcAwaitOrder[1]
  /\ calcLocal' = [calcLocal EXCEPT !.method = "maker"]
  /\ UNCHANGED <<otherVars, calcCalls, calcResult, tradeVars, formulaVars, storeVars>>

\* new RemainingFillableCalculator(...).computeRemainingTakerFillable(): its
\* first statement awaits computeRemainingMakerFillable()
ComputeRemainingTakerFillable ==
  /\ calcPc = "idle"
  /\ \E order \in CalcOrders : calcOrder' = order
  /\ calcPc' = CalcAwaitOrder[1]
  /\ calcLocal' = [calcLocal EXCEPT !.method = "taker"]
  /\ UNCHANGED <<otherVars, calcCalls, calcResult, tradeVars, formulaVars, storeVars>>

\* the condition of _getAvailableFeeFunds on the allowance of an account
isAllowanceShort(order, accountAddress, allowance) ==
  \/ accountAddress = order.maker /\ allowance < order.makerFee
  \/ accountAddress = order.taker /\ allowance < order.takerFee

\* _getAvailableFeeFunds(maker), its first await: getAllowanceAsync, which
\* asserts that the owner is an account of the supplied web3
CalcAwaitMakerFeeAllowance ==
  /\ CalcAt("makerFeeAllowance")
  /\ \E accounts \in AccountSets :
        IF calcOrder.maker \in accounts
          THEN /\ \E allowance \in BalanceValues :
                     /\ calcCalls' = calcCalls \o
                          << <<"getAccounts", calcOrder.maker>>,
                             <<"allowance", calcOrder.maker>> >>
                     /\ IF isAllowanceShort(calcOrder, calcOrder.maker, allowance)
                          THEN CalcReject("InsufficientAllowanceForTransfer")
                          ELSE CalcContinue
               /\ tokenContracts' = tokenContracts \cup {MktTokenAddress}
          ELSE /\ calcCalls' = Append(calcCalls, <<"getAccounts", calcOrder.maker>>)
               /\ CalcReject(AssertionError)
               /\ tokenContracts' = tokenContracts
  /\ UNCHANGED <<otherVars, calcOrder, calcLocal, contractSets, outsideWrapperCaches,
                 formulaVars, storeVars>>

\* _getAvailableFeeFunds(maker), its second await, and the comparison of
\* _hasMakerSufficientFundsForFee
CalcAwaitMakerFeeFunds ==
  /\ CalcAt("makerFeeFunds")
  /\ \E funds \in BalanceValues :
        /\ calcCalls' = Append(calcCalls, <<"balanceOf", calcOrder.maker>>)
        /\ IF funds >= calcOrder.makerFee
             THEN CalcContinue
             ELSE CalcReject("InsufficientBalanceForTransfer")
  /\ tokenContracts' = tokenContracts \cup {MktTokenAddress}
  /\ UNCHANGED <<otherVars, calcOrder, calcLocal, contractSets, outsideWrapperCaches,
                 formulaVars, storeVars>>

\* _getAvailableCollateral(maker)
CalcAwaitMakerAvailableCollateral ==
  /\ CalcAt("makerAvailableCollateral")
  /\ \E balance \in CollateralValues :
        /\ calcCalls' = calcCalls \o ContractSetReads(calcOrder.contractAddress)
                                  \o << <<"getUserAccountBalance", calcOrder.maker>> >>
        /\ calcLocal' = [calcLocal EXCEPT !.makerAvailableCollateral = balance]
  /\ contractSets' = contractSets \cup {calcOrder.contractAddress}
  /\ tokenContracts' = tokenContracts \cup {CollateralTokenAddress}
  /\ CalcContinue
  /\ UNCHANGED <<otherVars, calcOrder, outsideWrapperCaches, formulaVars, storeVars>>

\* calculateNeededCollateralAsync(contractAddress, orderQty, price)
CalcAwaitNeededCollateral ==
  /\ CalcAt("neededCollateral")
  /\ calcCalls' = calcCalls \o TermsReads(calcOrder.contractAddress)
  /\ calcLocal' = [calcLocal EXCEPT !.neededCollateral =
                     calculateNeededCollateralAsync(calcOrder.orderQty,
                                                    calcOrder.price)]
  /\ contractSets' = contractSets \cup {calcOrder.contractAddress}
  /\ tokenContracts' = tokenContracts \cup {CollateralTokenAddress}
  /\ CalcContinue
  /\ UNCHANGED <<otherVars, calcOrder, outsideWrapperCaches, formulaVars, storeVars>>

\* lines 332-338: what is left by the ledger, what the collateral supports,
\* and the lesser of the two
remainingMakerFillable(order, availableCollateral, neededCollateral, filled) ==
  LET remainingToFill ==
        minus(BigNumberOf(order.orderQty), BigNumberOf(filled))
      fillableQty ==
        times(dividedBy(BigNumberOf(availableCollateral),
                        BigNumberOf(neededCollateral)),
              BigNumberOf(order.orderQty))
  IN  BigNumberMin(fillableQty, remainingToFill)

\* a slip: no order counts as open
isOpenOrder_Never(order) == FALSE

\* this._signedOrder.taker === constants.NULL_ADDRESS
isOpenOrder(order) == order.taker = NULL_ADDRESS

\* getQtyFilledOrCancelledFromOrderAsync(contractAddress, orderHash) and the
\* rest of the body; in computeRemainingTakerFillable the value returned is
\* makerFillable, that of an open order is returned as it is
CalcAwaitAlreadyFilledOrCancelled ==
  /\ CalcAt("alreadyFilledOrCancelled")
  /\ \E filled \in FilledValues(calcOrder.orderQty) :
        /\ calcCalls' = calcCalls \o ContractSetReads(calcOrder.contractAddress)
                          \o << <<"getQtyFilledOrCancelledFromOrder",
                                  calcOrder.contractAddress>> >>
        /\ LET makerFillable ==
                 remainingMakerFillable(calcOrder,
                   calcLocal.makerAvailableCollateral,
                   calcLocal.neededCollateral, filled)
           IN  /\ calcLocal' = [calcLocal EXCEPT
                                  !.alreadyFilledOrCancelled = filled,
                                  !.makerFillable = makerFillable]
               /\ CASE calcLocal.method = "maker" ->
                         /\ calcResult' = makerFillable
                         /\ calcPc' = "returned"
                    [] isOpenOrder(calcOrder) ->
                         /\ calcResult' = makerFillable
                         /\ calcPc' = "takerReturned"
                    [] OTHER ->
                         /\ calcResult' = calcResult
                         /\ calcPc' = CalcTakerAwaitOrder[1]
  /\ contractSets' = contractSets \cup {calcOrder.contractAddress}
  /\ tokenContracts' = tokenContracts \cup {CollateralTokenAddress}
  /\ UNCHANGED <<otherVars, calcOrder, outsideWrapperCaches, formulaVars, storeVars>>

\* _getAvailableCollateral(taker)
CalcAwaitTakerAvailableCollateral ==
  /\ CalcAt("takerAvailableCollateral")
  /\ \E balance \in CollateralValues :
        /\ calcCalls' = calcCalls \o ContractSetReads(calcOrder.contractAddress)
                                  \o << <<"getUserAccountBalance", calcOrder.taker>> >>
        /\ calcLocal' = [calcLocal EXCEPT !.takerAvailableCollateral = balance]
  /\ contractSets' = contractSets \cup {calcOrder.contractAddress}
  /\ tokenContracts' = tokenContracts \cup {CollateralTokenAddress}
  /\ CalcContinue
  /\ UNCHANGED <<otherVars, calcOrder, outsideWrapperCaches, formulaVars, storeVars>>

\* _getAvailableFeeFunds(taker), its first await
CalcAwaitTakerFeeAllowance ==
  /\ CalcAt("takerFeeAllowance")
  /\ \E accounts \in AccountSets :
        IF calcOrder.taker \in accounts
          THEN /\ \E allowance \in BalanceValues :
                     /\ calcCalls' = calcCalls \o
                          << <<"getAccounts", calcOrder.taker>>,
                             <<"allowance", calcOrder.taker>> >>
                     /\ IF isAllowanceShort(calcOrder, calcOrder.taker, allowance)
                          THEN CalcReject("InsufficientAllowanceForTransfer")
                          ELSE CalcContinue
               /\ tokenContracts' = tokenContracts \cup {MktTokenAddress}
          ELSE /\ calcCalls' = Append(calcCalls, <<"getAccounts", calcOrder.taker>>)
               /\ CalcReject(AssertionError)
               /\ tokenContracts' = tokenContracts
  /\ UNCHANGED <<otherVars, calcOrder, calcLocal, contractSets,
                 outsideWrapperCaches, formulaVars, storeVars>>

\* _getAvailableFeeFunds(taker), its second await, and the comparison of
\* _hasTakerSufficientFundsForFee
CalcAwaitTakerFeeFunds ==
  /\ CalcAt("takerFeeFunds")
  /\ \E funds \in BalanceValues :
        /\ calcCalls' = Append(calcCalls, <<"balanceOf", calcOrder.taker>>)
        /\ IF funds >= calcOrder.takerFee
             THEN CalcContinue
             ELSE CalcReject("InsufficientBalanceForTransfer")
  /\ tokenContracts' = tokenContracts \cup {MktTokenAddress}
  /\ UNCHANGED <<otherVars, calcOrder, calcLocal, contractSets,
                 outsideWrapperCaches, formulaVars, storeVars>>

\* lines 361-365: what the taker's collateral supports, for the quantity
\* and the direction of the order, and the lesser of it and makerFillable
remainingTakerFillable(order, makerFillable, availableCollateral, neededCollateral) ==
  LET takerFillable ==
        times(dividedBy(BigNumberOf(availableCollateral),
                        BigNumberOf(neededCollateral)),
              BigNumberOf(order.orderQty))
  IN  BigNumberMin(makerFillable, takerFillable)

\* calculateNeededCollateralAsync(contractAddress, orderQty, price), again,
\* and the rest of the body
CalcAwaitTakerNeededCollateral ==
  /\ CalcAt("takerNeededCollateral")
  /\ LET neededCollateral ==
           calculateNeededCollateralAsync(calcOrder.orderQty, calcOrder.price)
     IN  /\ calcCalls' = calcCalls \o TermsReads(calcOrder.contractAddress)
         /\ calcLocal' = [calcLocal EXCEPT !.neededCollateral = neededCollateral]
         /\ calcResult' = remainingTakerFillable(calcOrder,
                            calcLocal.makerFillable,
                            calcLocal.takerAvailableCollateral, neededCollateral)
  /\ calcPc' = CalcAfter(calcPc)
  /\ contractSets' = contractSets \cup {calcOrder.contractAddress}
  /\ tokenContracts' = tokenContracts \cup {CollateralTokenAddress}
  /\ UNCHANGED <<otherVars, calcOrder, outsideWrapperCaches, formulaVars, storeVars>>

NextCalculator ==
  \/ ComputeRemainingMakerFillable
  \/ ComputeRemainingTakerFillable
  \/ CalcAwaitMakerFeeAllowance
  \/ CalcAwaitMakerFeeFunds
  \/ CalcAwaitMakerAvailableCollateral
  \/ CalcAwaitNeededCollateral
  \/ CalcAwaitAlreadyFilledOrCancelled
  \/ CalcAwaitTakerAvailableCollateral
  \/ CalcAwaitTakerFeeAllowance
  \/ CalcAwaitTakerFeeFunds
  \/ CalcAwaitTakerNeededCollateral

SpecCalculator == Init /\ [][NextCalculator]_vars

----------------------------------------------------------------------------
(* Vocabulary of the properties.  These read the arguments, the answers   *)
(* and the log directly, and use none of the checks defined above.        *)

Done == result # Pending

\* the call was rejected by the await at the given label
RejectedAt(label) == pc = label /\ Done

Fns == {calls[i][1] : i \in DOMAIN calls}

CountOf(fn) == Cardinality({i \in DOMAIN calls : calls[i][1] = fn})

SubmitCount == CountOf("tradeOrderTx.send")

Sender == IF txParams.from = Undefined THEN NULL_ADDRESS ELSE txParams.from

TakerMismatch ==
  signedOrder.taker # NULL_ADDRESS /\ signedOrder.taker # Sender

ExpiredAt(nowMs) == signedOrder.expirationTimestamp * 1000 < nowMs

NothingRemains == signedOrder.remainingQty = 0

OppositeDirections ==
  \/ signedOrder.orderQty > 0 /\ fillQty < 0
  \/ signedOrder.orderQty < 0 /\ fillQty > 0

SameDirection ==
  \/ signedOrder.orderQty > 0 /\ fillQty > 0
  \/ signedOrder.orderQty < 0 /\ fillQty < 0

SignedByMaker ==
  signedOrder.ecSignature =
    [signer |-> signedOrder.maker,
     hash |-> <<signedOrder.contractAddress, signedOrder.maker, signedOrder.taker,
                signedOrder.feeRecipient, signedOrder.makerFee,
                signedOrder.takerFee, signedOrder.price,
                signedOrder.expirationTimestamp, signedOrder.salt,
                signedOrder.orderQty>>]

\* the labels of the awaits that follow the synchronous checks
SignatureOrLater ==
  {"isValidSignature", "isMakerEnabled", "isTakerEnabled", "makerMktBalance",
   "makersMktAllowance", "takerMktBalance", "takersMktAllowance",
   "makerCollateralBalance", "takerCollateralBalance",
   "neededCollateralMaker", "neededCollateralTaker", "send"}

EnablementOrLater == SignatureOrLater \ {"isValidSignature"}

FeeOrLater == EnablementOrLater \ {"isMakerEnabled", "isTakerEnabled"}

\* the step of section 4.4 a backend call belongs to (0: the contract set)
StepOfCall(fn) ==
  CASE fn \in {"MARKET_COLLATERAL_POOL_ADDRESS", "COLLATERAL_TOKEN_ADDRESS"} -> 0
    [] fn = "isSettled" -> 1
    [] fn = "isValidSignature" -> 6
    [] fn = "isUserEnabledForContract" -> 7
    [] fn \in {"balanceOf", "getAccounts", "allowance"} -> 8
    [] fn \in {"getUserAccountBalance", "PRICE_FLOOR", "PRICE_CAP",
               "QTY_MULTIPLIER"} -> 9
    [] fn = "tradeOrderTx.send" -> 10

\* the step of section 4.4 an outcome comes from
StepOfResult(r) ==
  CASE r = "ContractAlreadySettled" -> 1
    [] r = "InvalidTaker" -> 2
    [] r = "OrderExpired" -> 3
    [] r = "OrderFilledOrCancelled" -> 4
    [] r = "BuySellMismatch" -> 5
    [] r = "InvalidSignature" -> 6
    [] r = "UserNotEnabledForContract" -> 7
    [] r \in {"InsufficientBalanceForTransfer",
              "InsufficientAllowanceForTransfer", AssertionError} -> 8
    [] r = "InsufficientCollateralBalance" -> 9
    [] r \in {OrderTransactionInfo, BackendError} -> 10

\* a rejection decided by the wrapper itself, before anything was submitted
LocalRejection == result \in MarketError \cup {AssertionError}

----------------------------------------------------------------------------
(* C1 *)

\* the await completed last returned the given field
Answered(field) == field \in DOMAIN answer

\* the answer of the await completed last let the body go on
LastAnswerPassed ==
  /\ At("isValidSignature") =>
       /\ Answered("now")
       /\ ~answer.isContractSettled /\ ~ExpiredAt(answer.now)
  /\ At("isMakerEnabled") =>
       Answered("validSignature") /\ answer.validSignature
  /\ At("makerMktBalance") =>
       /\ Answered("isTakerEnabled")
       /\ local.isMakerEnabled /\ answer.isTakerEnabled
  /\ At("makersMktAllowance") =>
       Answered("balance") /\ answer.balance >= signedOrder.makerFee
  /\ At("takerMktBalance") =>
       Answered("allowance") /\ answer.allowance >= signedOrder.makerFee
  /\ At("takersMktAllowance") =>
       Answered("balance") /\ answer.balance >= signedOrder.takerFee
  /\ At("makerCollateralBalance") =>
       Answered("allowance") /\ answer.allowance >= signedOrder.takerFee

\* what the arguments and the constants kept must satisfy at submission
ChecksPassedAtSend ==
  /\ ~TakerMismatch
  /\ ~NothingRemains
  /\ ~OppositeDirections
  /\ SignedByMaker
  /\ local.isMakerEnabled
  /\ local.makerCollateralBalance >=
       calculateNeededCollateral(terms.priceFloor, terms.priceCap,
                                 terms.qtyMultiplier, fillQty, signedOrder.price)
  /\ local.takerCollateralBalance >=
       calculateNeededCollateral(terms.priceFloor, terms.priceCap,
                                 terms.qtyMultiplier, 0 - fillQty, signedOrder.price)

\* C1: tradeOrderAsync submits the fill only after every local check has
\* passed.  A call that ends with a validation error has invoked the submit
\* interface zero times and has issued reads only; the body reaches each
\* await only when the check before it passed, and reaches the submission
\* only when the collateral check, the last one, passed.
C1_SubmitOnlyAfterAllChecks ==
  /\ LocalRejection => SubmitCount = 0
  /\ SubmitCount > 0 => pc = "send" /\ Done /\ SubmitCount = 1
  /\ pc = "send" => ChecksPassedAtSend
  /\ LastAnswerPassed

\* the last check rejects: the taker lacks collateral, the maker does not
C1_Witness ==
  /\ RejectedAt("neededCollateralTaker")
  /\ result = "InsufficientCollateralBalance"
  /\ local.makerCollateralBalance >= local.neededCollateralMaker
  /\ SubmitCount = 0

----------------------------------------------------------------------------
(* C2 *)

\* the outcome the fixed order prescribes for a call that stopped at the
\* settlement read or at one of the checks that follow it without an await
FirstFailureOfSyncSteps ==
  IF answer.isContractSettled THEN "ContractAlreadySettled"
  ELSE IF TakerMismatch THEN "InvalidTaker"
  ELSE IF ExpiredAt(answer.now) THEN "OrderExpired"
  ELSE IF NothingRemains THEN "OrderFilledOrCancelled"
  ELSE "BuySellMismatch"

\* C2: when several preconditions fail at once the error is that of the
\* earliest failing step of the fixed order, and no later step is evaluated
\* once a step has failed: the log holds no call of a later step, the calls
\* were issued in the order of the steps, and the checks on the arguments
\* that come before the failing step all passed.
C2_EarliestFailingStepWins ==
  Done =>
    /\ RejectedAt("isSettled") => result = FirstFailureOfSyncSteps
    /\ \A i \in DOMAIN calls : StepOfCall(calls[i][1]) <= StepOfResult(result)
    /\ \A i, j \in DOMAIN calls :
          i < j => StepOfCall(calls[i][1]) <= StepOfCall(calls[j][1])
    /\ StepOfResult(result) > 2 => ~TakerMismatch
    /\ StepOfResult(result) > 4 => ~NothingRemains
    /\ StepOfResult(result) > 5 => ~OppositeDirections
    /\ StepOfResult(result) > 6 => SignedByMaker
    /\ StepOfResult(result) > 7 => local.isMakerEnabled

\* steps 2 to 6 all fail at once, the error is that of step 2
C2_Witness ==
  /\ result = "InvalidTaker"
  /\ ExpiredAt(answer.now)
  /\ NothingRemains
  /\ ~SignedByMaker
  /\ Fns = {"MARKET_COLLATERAL_POOL_ADDRESS", "COLLATERAL_TOKEN_ADDRESS", "isSettled"}

----------------------------------------------------------------------------
(* C3 *)

\* the call went past the settlement read
Unsettled == Answered("now")

\* C3: the effective taker is the transaction sender.  For an unsettled
\* contract the call rejects with InvalidTaker exactly when the order names
\* a taker other than the open sentinel and other than the sender; past
\* this step the order is open or names the sender, and the taker the later
\* reads are made for is the sender.
C3_TakerIsSender ==
  /\ (RejectedAt("isSettled") /\ Unsettled) =>
        (result = "InvalidTaker" <=> TakerMismatch)
  /\ result = "InvalidTaker" => RejectedAt("isSettled")
  /\ pc \in SignatureOrLater => ~TakerMismatch /\ local.taker = Sender

\* the order names the taker and the maker sends the fill
C3_Witness ==
  /\ result = "InvalidTaker"
  /\ signedOrder.taker = Taker
  /\ txParams.from = Maker

----------------------------------------------------------------------------
(* C4 *)

\* C4: with steps 1 and 2 passed, the call rejects with OrderExpired exactly
\* when the expiration timestamp is strictly less than the current time; an
\* order that expires at the current time goes on to the next checks.
C4_ExpiredIffStrictlyBeforeNow ==
  /\ (RejectedAt("isSettled") /\ Unsettled /\ ~TakerMismatch) =>
        (result = "OrderExpired" <=> ExpiredAt(answer.now))
  /\ result = "OrderExpired" => RejectedAt("isSettled")
  /\ At("isValidSignature") => Unsettled /\ ~ExpiredAt(answer.now)

\* the clock is half a second past the expiration
C4_Witness ==
  /\ result = "OrderExpired"
  /\ answer.now = signedOrder.expirationTimestamp * 1000 + 500

----------------------------------------------------------------------------
(* C5 *)

\* C5: with steps 1 to 3 passed, the call rejects with OrderFilledOrCancelled
\* exactly when signedOrder.remainingQty is zero, whatever the fill quantity.
C5_FilledOrCancelledIffNothingRemains ==
  /\ (RejectedAt("isSettled") /\ Unsettled /\ ~TakerMismatch
        /\ ~ExpiredAt(answer.now)) =>
        (result = "OrderFilledOrCancelled" <=> NothingRemains)
  /\ result = "OrderFilledOrCancelled" => RejectedAt("isSettled")
  /\ pc \in SignatureOrLater => ~NothingRemains

\* nothing remains of a buy order and the fill asks for one unit
C5_Witness ==
  /\ result = "OrderFilledOrCancelled"
  /\ signedOrder.orderQty > 0
  /\ fillQty > 0

----------------------------------------------------------------------------
(* C6 *)

\* C6: with steps 1 to 4 passed, a fill quantity of the sign opposite to the
\* order quantity is rejected with BuySellMismatch and nothing is submitted;
\* a fill in the direction of the order is not rejected by this step.
C6_BuySellMismatch ==
  /\ (RejectedAt("isSettled") /\ Unsettled /\ ~TakerMismatch
        /\ ~ExpiredAt(answer.now) /\ ~NothingRemains) =>
        /\ result = "BuySellMismatch"
        /\ ~SameDirection
  /\ result = "BuySellMismatch" => RejectedAt("isSettled") /\ SubmitCount = 0
  /\ pc \in SignatureOrLater => ~OppositeDirections

\* a buy order, a fill that sells
C6_Witness ==
  /\ result = "BuySellMismatch"
  /\ signedOrder.orderQty > 0
  /\ fillQty < 0

----------------------------------------------------------------------------
(* C7 *)

\* C7: with steps 1 to 5 passed, an order whose signature does not verify
\* against its hash and its maker is rejected with InvalidSignature, and no
\* enablement, balance, allowance or collateral read is issued in the call.
C7_InvalidSignatureStopsTheCall ==
  /\ RejectedAt("isValidSignature") =>
        result = "InvalidSignature" /\ ~SignedByMaker
  /\ result = "InvalidSignature" => RejectedAt("isValidSignature")
  /\ (pc \in SignatureOrLater /\ ~SignedByMaker /\ ~At("isValidSignature")) =>
        /\ result = "InvalidSignature"
        /\ \A i \in DOMAIN calls : StepOfCall(calls[i][1]) <= 6

\* the s part of the signature was replaced
C7_Witness ==
  /\ result = "InvalidSignature"
  /\ signedOrder.ecSignature = TamperedSignature
  /\ calls[Len(calls)] = <<"isValidSignature", signedOrder.maker>>

----------------------------------------------------------------------------
(* C8 *)

\* the two enablement reads, for the maker then for the sender, come last
EnablementReadsLast ==
  /\ Len(calls) >= 2
  /\ calls[Len(calls) - 1] = <<"isUserEnabledForContract", signedOrder.maker>>
  /\ calls[Len(calls)] = <<"isUserEnabledForContract", Sender>>

\* C8: with steps 1 to 6 passed, the call rejects with
\* UserNotEnabledForContract when the maker or the sender is not enabled for
\* the contract, and goes on only when both are.
C8_BothMustBeEnabled ==
  /\ RejectedAt("isTakerEnabled") =>
        /\ result = "UserNotEnabledForContract"
        /\ Answered("isTakerEnabled")
        /\ ~local.isMakerEnabled \/ ~answer.isTakerEnabled
        /\ EnablementReadsLast
  /\ result = "UserNotEnabledForContract" => RejectedAt("isTakerEnabled")
  /\ At("makerMktBalance") =>
        /\ Answered("isTakerEnabled")
        /\ local.isMakerEnabled /\ answer.isTakerEnabled
        /\ EnablementReadsLast
  /\ pc \in FeeOrLater => local.isMakerEnabled

\* the maker is enabled, the sender is not
C8_Witness ==
  /\ result = "UserNotEnabledForContract"
  /\ local.isMakerEnabled
  /\ ~answer.isTakerEnabled

----------------------------------------------------------------------------
(* C9 *)

\* C9 as stated: in the fee step an account's allowance is fetched before
\* its balance, so a balance is never read without the allowance of the same
\* account having been read first.
C9_AllowanceFetchedFirst ==
  \A i \in DOMAIN calls :
     calls[i][1] = "balanceOf" =>
       \E j \in 1..(i - 1) : calls[j] = <<"allowance", calls[i][2]>>

\* C9 amended: in the fee step of tradeOrderAsync an account's balance is
\* fetched first; a balance below the fee fails with
\* InsufficientBalanceForTransfer before the allowance of that account is
\* fetched, and the allowance is fetched, and compared with the same fee,
\* only once the balance has passed.
C9_BalanceFetchedFirst ==
  /\ \A i \in DOMAIN calls :
        calls[i][1] \in {"getAccounts", "allowance"} =>
          \E j \in 1..(i - 1) : calls[j] = <<"balanceOf", calls[i][2]>>
  /\ RejectedAt("makerMktBalance") =>
        /\ result = "InsufficientBalanceForTransfer"
        /\ Answered("balance") /\ answer.balance < signedOrder.makerFee
        /\ CountOf("getAccounts") = 0 /\ CountOf("allowance") = 0
  /\ RejectedAt("takerMktBalance") =>
        /\ result = "InsufficientBalanceForTransfer"
        /\ Answered("balance") /\ answer.balance < signedOrder.takerFee
        /\ CountOf("getAccounts") = 1 /\ CountOf("allowance") = 1
  /\ At("makersMktAllowance") =>
        Answered("balance") /\ answer.balance >= signedOrder.makerFee
  /\ At("takersMktAllowance") =>
        Answered("balance") /\ answer.balance >= signedOrder.takerFee
  /\ (RejectedAt("makersMktAllowance")
        /\ result = "InsufficientAllowanceForTransfer") =>
        answer.allowance < signedOrder.makerFee
  /\ (RejectedAt("takersMktAllowance")
        /\ result = "InsufficientAllowanceForTransfer") =>
        answer.allowance < signedOrder.takerFee

\* the maker's balance is short: the call fails on it, no allowance was read
C9_Witness ==
  /\ RejectedAt("makerMktBalance")
  /\ result = "InsufficientBalanceForTransfer"
  /\ calls[Len(calls)] = <<"balanceOf", signedOrder.maker>>

----------------------------------------------------------------------------
(* C10 *)

\* C10: the fee step rejects at the first shortfall, in the order maker
\* balance, maker allowance, taker balance, taker allowance: a rejection at
\* a balance read is InsufficientBalanceForTransfer, and an account whose
\* balance passed either has its allowance pass too or is rejected with
\* InsufficientAllowanceForTransfer.
C10_FeeStepFirstShortfall ==
  /\ RejectedAt("makerMktBalance") => result = "InsufficientBalanceForTransfer"
  /\ RejectedAt("makersMktAllowance") => result = "InsufficientAllowanceForTransfer"
  /\ RejectedAt("takerMktBalance") => result = "InsufficientBalanceForTransfer"
  /\ RejectedAt("takersMktAllowance") => result = "InsufficientAllowanceForTransfer"

----------------------------------------------------------------------------
(* C11 *)

Max0(x) == IF x > 0 THEN x ELSE 0

\* the collateral a fill of the given signed quantity locks at the order price
NeededFor(qty) ==
  IF qty > 0
    THEN Max0(signedOrder.price - terms.priceFloor) * qty * terms.qtyMultiplier
  ELSE IF qty < 0
    THEN Max0(terms.priceCap - signedOrder.price) * (0 - qty) * terms.qtyMultiplier
  ELSE 0

\* the accounts whose unallocated collateral was read, in the order of the reads
CollateralReadsFor ==
  LET reads == SelectSeq(calls, LAMBDA c : c[1] = "getUserAccountBalance")
  IN  [i \in DOMAIN reads |-> reads[i][2]]

\* C11: with steps 1 to 8 passed, the call rejects with
\* InsufficientCollateralBalance exactly when the maker's unallocated
\* collateral is less than the collateral needed for +fillQty at the order
\* price, or the sender's is less than the collateral needed for -fillQty;
\* otherwise the body goes on to the submission, and submits once.
C11_CollateralStep ==
  /\ RejectedAt("neededCollateralTaker") =>
        /\ result = "InsufficientCollateralBalance"
        /\ \/ local.makerCollateralBalance < NeededFor(fillQty)
           \/ local.takerCollateralBalance < NeededFor(0 - fillQty)
  /\ result = "InsufficientCollateralBalance" => RejectedAt("neededCollateralTaker")
  /\ pc \in {"neededCollateralTaker", "send"} =>
        CollateralReadsFor = <<signedOrder.maker, Sender>>
  /\ pc = "send" =>
        /\ local.makerCollateralBalance >= NeededFor(fillQty)
        /\ local.takerCollateralBalance >= NeededFor(0 - fillQty)
  /\ (pc = "send" /\ Done) =>
        /\ SubmitCount = 1
        /\ calls[Len(calls)][1] = "tradeOrderTx.send"

\* the maker lacks the collateral of a buy fill, the sender has enough for
\* the opposite side
C11_Witness ==
  /\ RejectedAt("neededCollateralTaker")
  /\ fillQty > 0
  /\ NeededFor(fillQty) > 0
  /\ local.makerCollateralBalance < NeededFor(fillQty)
  /\ local.takerCollateralBalance >= NeededFor(0 - fillQty)

----------------------------------------------------------------------------
(* C12 *)

\* the tags a failed validation of tradeOrderAsync may carry
ValidationTags ==
  {"ContractAlreadySettled", "InvalidTaker", "OrderExpired",
   "OrderFilledOrCancelled", "BuySellMismatch", "InvalidSignature",
   "UserNotEnabledForContract", "InsufficientBalanceForTransfer",
   "InsufficientAllowanceForTransfer", "InsufficientCollateralBalance"}

\* C12: every rejection of tradeOrderAsync decided before the submission,
\* that is by a local validation and not by the backend refusing the fill,
\* carries one tag of the error taxonomy; none is an untagged error.
C12_EveryRejectionTagged ==
  (Done /\ SubmitCount = 0) => result \in ValidationTags

----------------------------------------------------------------------------
(* C13 *)

Magnitude(x) == IF x < 0 THEN 0 - x ELSE x

\* C13: calculateNeededCollateral is max(0, price - priceFloor) * |qty| *
\* qtyMultiplier for a positive qty and max(0, priceCap - price) * |qty| *
\* qtyMultiplier for a negative one; it is 0 for a long position at the floor
\* and for a short position at the cap.
C13_NeededCollateralFormula ==
  \A i \in DOMAIN formula.applied :
    LET a == formula.applied[i]
    IN  /\ a.qty > 0 =>
             a.needed = Max0(formula.price - formula.priceFloor)
                          * Magnitude(a.qty) * formula.qtyMultiplier
        /\ a.qty < 0 =>
             a.needed = Max0(formula.priceCap - formula.price)
                          * Magnitude(a.qty) * formula.qtyMultiplier
        /\ (a.qty > 0 /\ formula.price = formula.priceFloor) => a.needed = 0
        /\ (a.qty < 0 /\ formula.price = formula.priceCap) => a.needed = 0

\* a short position priced above the cap: the loss is floored, nothing is
\* needed although quantity and multiplier are not zero
C13_Witness ==
  \E i \in DOMAIN formula.applied :
    /\ formula.applied[i].qty < 0
    /\ formula.price > formula.priceCap
    /\ formula.qtyMultiplier > 0
    /\ formula.applied[i].needed = 0

----------------------------------------------------------------------------
(* C14 *)

\* the price lies between the floor and the cap; none of the terms is negative
PriceWithinTerms ==
  /\ 0 <= formula.priceFloor
  /\ formula.priceFloor <= formula.price
  /\ formula.price <= formula.priceCap
  /\ 0 <= formula.qtyMultiplier

\* C14: for a price between a non-negative floor and the cap and a
\* non-negative multiplier the needed collateral is not negative, and of two
\* quantities of one direction the one of larger magnitude needs no less.
C14_NonNegativeAndMonotone ==
  PriceWithinTerms =>
    /\ \A i \in DOMAIN formula.applied : formula.applied[i].needed >= 0
    /\ \A i, j \in DOMAIN formula.applied :
          LET a == formula.applied[i]
              b == formula.applied[j]
          IN  (a.qty * b.qty >= 0 /\ Magnitude(a.qty) <= Magnitude(b.qty)) =>
                a.needed <= b.needed

\* two short positions, the larger one needs strictly more
C14_Witness ==
  /\ PriceWithinTerms
  /\ Len(formula.applied) = 2
  /\ formula.applied[1].qty < 0
  /\ formula.applied[2].qty < formula.applied[1].qty
  /\ formula.applied[2].needed > formula.applied[1].needed

----------------------------------------------------------------------------
(* C15 *)

Lookups == {i \in DOMAIN log : log[i].op = "lookup"}

\* the operation touches the entry of the key
Touches(j, key) ==
  \/ log[j].op = "deleteAll"
  \/ log[j].op \in {"lookup", "delete"} /\ log[j].key = key

\* the last operation before the i-th that touched the key of the i-th, or 0
LastTouch(i) ==
  LET before == {j \in 1..(i - 1) : Touches(j, log[i].key)}
  IN  IF before = {} THEN 0
      ELSE CHOOSE j \in before : \A k \in before : k <= j

\* C15: the first lookup of a fresh key issues exactly one backend read and
\* stores what it read; a later lookup of the key with no invalidation in
\* between issues no read and returns the stored value, whatever the chain
\* holds by then.
C15_ReadOnceThenServeStored ==
  /\ \A i \in Lookups :
        /\ LastTouch(i) = 0 =>
              log[i].reads = 1 /\ log[i].value = log[i].onChain
        /\ (LastTouch(i) # 0 /\ log[LastTouch(i)].op = "lookup") =>
              log[i].reads = 0 /\ log[i].value = log[LastTouch(i)].value
  /\ (log # <<>> /\ log[Len(log)].op = "lookup") =>
        /\ log[Len(log)].key \in DOMAIN store
        /\ store[log[Len(log)].key] = log[Len(log)].value

\* a second lookup returns the stored quantity although the chain has moved
C15_Witness ==
  \E i \in Lookups :
    /\ LastTouch(i) # 0
    /\ log[LastTouch(i)].op = "lookup"
    /\ log[i].reads = 0
    /\ log[i].onChain > log[i].value

----------------------------------------------------------------------------
(* C16 *)

\* C16: after deleteQtyFilledOrCancelled of a key the next lookup of the key
\* issues exactly one backend read and returns the quantity on chain at that
\* read, not what was seen before the invalidation; the entry is gone once
\* the invalidation has returned.
C16_RefetchAfterInvalidate ==
  /\ \A i \in Lookups :
        (LastTouch(i) # 0 /\ log[LastTouch(i)].op = "delete") =>
          log[i].reads = 1 /\ log[i].value = log[i].onChain
  /\ (log # <<>> /\ log[Len(log)].op = "delete") =>
        log[Len(log)].key \notin DOMAIN store

\* lookup, a fill on chain, invalidation, lookup: the second lookup returns
\* the new quantity
C16_Witness ==
  /\ Len(log) = 3
  /\ log[1].op = "lookup"
  /\ log[2].op = "delete" /\ log[2].key = log[1].key
  /\ log[3].op = "lookup" /\ log[3].key = log[1].key
  /\ log[3].value > log[1].value

----------------------------------------------------------------------------
(* C17 *)

\* C17: invalidating a key the store has no entry for returns normally and
\* leaves every entry as it was.
C17_InvalidateAbsentIsNoOp ==
  (log # <<>> /\ log[Len(log)].op = "delete"
     /\ log[Len(log)].key \notin DOMAIN prev) =>
    /\ log[Len(log)].outcome = "returned"
    /\ store = prev

\* the store holds an entry for one key, the other key is invalidated
C17_Witness ==
  /\ log # <<>>
  /\ log[Len(log)].op = "delete"
  /\ log[Len(log)].key \notin DOMAIN prev
  /\ DOMAIN prev # {}

----------------------------------------------------------------------------
(* C18 *)

\* C18: deleteAll clears every entry; the first lookup of any key after it,
\* cached before or not, issues a backend read and returns the quantity on
\* chain.
C18_DeleteAllClears ==
  /\ (log # <<>> /\ log[Len(log)].op = "deleteAll") => DOMAIN store = {}
  /\ \A i \in Lookups :
        (LastTouch(i) # 0 /\ log[LastTouch(i)].op = "deleteAll") =>
          log[i].reads = 1 /\ log[i].value = log[i].onChain

\* lookup, a fill on chain, deleteAll, lookup of the key cached before: the
\* new quantity is returned
C18_Witness ==
  /\ Len(log) = 3
  /\ log[1].op = "lookup"
  /\ log[2].op = "deleteAll"
  /\ log[3].op = "lookup" /\ log[3].key = log[1].key
  /\ log[3].reads = 1
  /\ log[3].value > log[1].value

----------------------------------------------------------------------------
(* C19 *)

\* computeRemainingMakerFillable has returned a value
CalcReturned == calcPc = "returned"

\* C19: whenever the maker's fee check passes and
\* computeRemainingMakerFillable returns, the absolute value of what it
\* returns is at most |orderQty| - |alreadyFilledOrCancelled|, for buy and
\* for sell orders.
C19_AtMostLedgerRemaining ==
  CalcReturned =>
    /\ calcResult.kind = "finite"
    /\ Magnitude(calcResult.n) <=
         (Magnitude(calcOrder.orderQty)
            - Magnitude(calcLocal.alreadyFilledOrCancelled)) * (10 ^ DecimalPlaces)

----------------------------------------------------------------------------
(* C20 *)

\* the magnitude of availableCollateral / neededCollateral * orderQty, for a
\* need above zero, in the smallest decimal unit
CollateralFillable ==
  ((2 * calcLocal.makerAvailableCollateral * (10 ^ DecimalPlaces)
      + calcLocal.neededCollateral) \div (2 * calcLocal.neededCollateral))
    * Magnitude(calcOrder.orderQty)

\* the magnitude of what the ledger leaves, in the smallest decimal unit
LedgerRemaining ==
  Magnitude(calcOrder.orderQty - calcLocal.alreadyFilledOrCancelled)
    * (10 ^ DecimalPlaces)

\* C20: computeRemainingMakerFillable returns the lesser, in absolute terms
\* and with the sign of orderQty, of the quantity the collateral supports
\* and the quantity the ledger leaves, for buy and for sell orders alike.
C20_MinOfCollateralAndLedger ==
  (CalcReturned /\ calcLocal.neededCollateral > 0) =>
    /\ calcResult.kind = "finite"
    /\ Magnitude(calcResult.n) =
         (IF CollateralFillable <= LedgerRemaining
            THEN CollateralFillable ELSE LedgerRemaining)
    /\ calcResult.n * calcOrder.orderQty >= 0

----------------------------------------------------------------------------
(* C21 *)

\* computeRemainingTakerFillable is the method running or finished
TakerMethod == calcLocal.method = "taker"

\* computeRemainingTakerFillable has returned a value
CalcTakerReturned == calcPc = "takerReturned"

\* the labels of the reads made on the taker's behalf
TakerSideLabels ==
  {"takerAvailableCollateral", "takerFeeAllowance", "takerFeeFunds",
   "takerNeededCollateral"}

\* the calls made so far that name the account
CallsOn(account) == {k \in DOMAIN calcCalls : calcCalls[k][2] = account}

\* C21: for an order whose taker is the open-order sentinel,
\* computeRemainingTakerFillable returns exactly the value of
\* computeRemainingMakerFillable and makes no taker-side fee, allowance or
\* collateral read.
C21_OpenOrderReturnsMakerFillable ==
  (TakerMethod /\ calcOrder.taker = NULL_ADDRESS) =>
    /\ calcPc \notin TakerSideLabels
    /\ CallsOn(calcOrder.taker) = {}
    /\ CalcTakerReturned =>
         calcResult = remainingMakerFillable(calcOrder,
                        calcLocal.makerAvailableCollateral,
                        calcLocal.neededCollateral,
                        calcLocal.alreadyFilledOrCancelled)

C21_Witness ==
  /\ CalcTakerReturned
  /\ calcOrder.taker = NULL_ADDRESS
  /\ calcResult.kind = "finite"
  /\ calcResult.n > 0

----------------------------------------------------------------------------
(* C22 *)

\* a.abs().isLessThanOrEqualTo(b.abs()): false when either is NaN
AbsAtMost(a, b) ==
  /\ a.kind # "NaN"
  /\ b.kind # "NaN"
  /\ \/ b.kind = "Infinity"
     \/ a.kind = "finite" /\ b.kind = "finite" /\ Magnitude(a.n) <= Magnitude(b.n)

\* C22: for an order with a concrete taker whose fee check passes,
\* computeRemainingTakerFillable returns a quantity whose absolute value
\* never exceeds that of computeRemainingMakerFillable.
C22_AtMostMakerFillable ==
  (CalcTakerReturned /\ calcOrder.taker # NULL_ADDRESS) =>
    AbsAtMost(calcResult, calcLocal.makerFillable)

----------------------------------------------------------------------------
(* C23 *)

\* the calculator's method was rejected at the await of the label
CalcRejectedAt(label) == calcPc = label /\ calcResult.kind # Pending

\* the names of the calls the calculator has made
CalcFns == {calcCalls[k][1] : k \in DOMAIN calcCalls}

\* the reads of collateral, of the contract terms and of the fill ledger
CollateralOrLedgerFns ==
  {"getUserAccountBalance", "PRICE_FLOOR", "PRICE_CAP", "QTY_MULTIPLIER",
   "getQtyFilledOrCancelledFromOrder"}

\* C23: in computeRemainingMakerFillable the fee check runs first: a call
\* that stops at the maker's allowance fails with
\* InsufficientAllowanceForTransfer before the maker's balance is fetched
\* and before any collateral or fill-ledger read, and a call that stops at
\* the maker's balance fails with InsufficientBalanceForTransfer before any
\* collateral read.
C23_FeeCheckFirst ==
  /\ CalcRejectedAt("makerFeeAllowance") =>
       /\ calcResult.kind = "InsufficientAllowanceForTransfer"
       /\ "balanceOf" \notin CalcFns
       /\ CalcFns \cap CollateralOrLedgerFns = {}
  /\ CalcRejectedAt("makerFeeFunds") =>
       /\ calcResult.kind = "InsufficientBalanceForTransfer"
       /\ CalcFns \cap CollateralOrLedgerFns = {}

----------------------------------------------------------------------------
(* C24 *)

\* the call before the submission, when there is one
BeforeSend ==
  LET k == CHOOSE k \in DOMAIN calls : calls[k][1] = "tradeOrderTx.send"
  IN  calls[k - 1][1]

\* C24: between its checks and its submission the body validates nothing
\* again and a refused submission is not retried: the maker's and the
\* taker's balance are read once each, the submission follows the last read of the collateral step
\* at once, and there is at most one submission, after which the call has
\* settled. So a fill whose checks passed on the state observed is
\* submitted even when the chain no longer covers it.
C24_NoRecheckNoRetry ==
  /\ SubmitCount <= 1
  /\ CountOf("getUserAccountBalance") <= Cardinality(CollateralFields)
  /\ SubmitCount = 1 =>
       /\ BeforeSend = "QTY_MULTIPLIER"
       /\ calls[Len(calls)][1] = "tradeOrderTx.send"
       /\ Done

\* the checks passed on the balances read, the maker's collateral on the
\* chain has since fallen below the need, and the fill was submitted
C24_Witness ==
  /\ SubmitCount = 1
  /\ fillQty # 0
  /\ local.makerCollateralBalance >= NeededFor(fillQty)
  /\ chain.makerCollateralBalance < NeededFor(fillQty)

----------------------------------------------------------------------------
(* C25 *)

\* the fee step has run for both quantities
BothRan == Len(feeStep.outcomes) = 2

\* C25: the outcome of the fee step of tradeOrderAsync does not depend on
\* fillQty: for one order and one state of the chain, any two quantities
\* to fill give the same outcome, the balances and the allowances being
\* compared with the whole makerFee and takerFee.
C25_FeeStepIgnoresFillQty ==
  BothRan => feeStep.outcomes[1] = feeStep.outcomes[2]

\* a partial fill is rejected for a fee its share of would be covered
C25_Witness ==
  /\ BothRan
  /\ absoluteValue(feeStep.fillQtys[1]) < absoluteValue(feeStep.fillQtys[2])
  /\ feeStep.outcomes[1] = "InsufficientBalanceForTransfer"
  /\ (feeStep.makerFee * absoluteValue(feeStep.fillQtys[1]))
       \div absoluteValue(feeStep.orderQty) <= feeStep.chain.makerBalance

----------------------------------------------------------------------------
(* C26 *)

\* computeRemainingTakerFillable has returned a quantity other than zero
\* for an order with a concrete taker
ReturnedNonZero ==
  /\ CalcTakerReturned
  /\ calcOrder.taker # NULL_ADDRESS
  /\ calcResult.kind = "finite"
  /\ calcResult.n # 0

\* the outcome of the collateral step of tradeOrderAsync for the quantity
\* returned and the balances the calculator has read, need and balances
\* in the smallest decimal unit
CollateralStepOfReturned ==
  CollateralCheck(calcLocal.makerAvailableCollateral * Scale,
                  calcLocal.takerAvailableCollateral * Scale,
                  calculateNeededCollateralAsync(calcResult.n, calcOrder.price),
                  calculateNeededCollateralAsync(0 - calcResult.n, calcOrder.price))

\* C26: for an order with a concrete taker, whenever
\* computeRemainingTakerFillable returns a non-zero quantity q, the
\* collateral step of tradeOrderAsync for fillQty = q, in the same state
\* of the chain, passes for the maker and for the taker.
C26_ReturnedQuantityPassesCollateralStep ==
  ReturnedNonZero => CollateralStepOfReturned = "ok"

----------------------------------------------------------------------------
(* C27 *)

\* C27: whenever the fee check passes, computeRemainingMakerFillable
\* returns a finite quantity, also when the needed collateral is zero, and
\* then the quantity is what the ledger leaves, orderQty minus
\* alreadyFilledOrCancelled.
C27_FiniteAlsoForZeroNeed ==
  CalcReturned =>
    /\ calcResult.kind = "finite"
    /\ calcLocal.neededCollateral = 0 =>
         calcResult.n =
           (calcOrder.orderQty - calcLocal.alreadyFilledOrCancelled) * Scale

----------------------------------------------------------------------------
(* C28 *)

\* the deposit transaction was submitted
DepositSubmitted == "depositTokensForTradingTx.send" \in Fns

\* C28: depositCollateralAsync runs an ordered, short-circuiting chain of
\* guards before it submits: a call that stops at the enablement read
\* fails with UserNotEnabledForContract and has read no balance, one that
\* stops at the balance read fails with InsufficientBalanceForTransfer and
\* has read no allowance, one that stops at the allowance read fails with
\* InsufficientAllowanceForTransfer, and the deposit is submitted only
\* when all three guards passed.
C28_DepositGuardChain ==
  /\ RejectedAt("depositIsUserEnabled") =>
       /\ result = "UserNotEnabledForContract"
       /\ Fns \cap {"balanceOf", "getAccounts", "allowance"} = {}
  /\ RejectedAt("depositBalance") =>
       /\ result = "InsufficientBalanceForTransfer"
       /\ Fns \cap {"getAccounts", "allowance"} = {}
  /\ RejectedAt("depositAllowance") =>
       result = "InsufficientAllowanceForTransfer"
  /\ DepositSubmitted <=>
       /\ pc = "depositSend"
       /\ Done
  /\ pc = "depositSend" =>
       /\ depositLocal.isUserEnabled
       /\ depositLocal.callerCollateralTokenBalance >= depositAmount
       /\ depositLocal.callerAllowance >= depositAmount

----------------------------------------------------------------------------
(* C29 *)

\* the invocations of fn in flight after the first k events
InFlightAfter(k) ==
  Cardinality({j \in 1..k : timer[j] = "invoked"})
    - Cardinality({j \in 1..k : timer[j] \in {"resolved", "rejected"}})

\* C29: setAsyncExcludingInterval never has two invocations of fn in
\* flight; a tick is skipped only while an invocation is in flight and
\* starts nothing later; and once the invocation has settled, resolved or
\* rejected with onError called, the lock is released, so that the next
\* tick invokes fn again.
C29_ExcludingInterval ==
  /\ InFlight \in {0, 1}
  /\ locked <=> InFlight = 1
  /\ \A k \in DOMAIN timer :
       /\ timer[k] = "skipped" => InFlightAfter(k - 1) = 1
       /\ timer[k] = "invoked" => InFlightAfter(k - 1) = 0
       /\ timer[k] = "rejected" => timer[k + 1] \in {"onError returned", "onError threw"}

----------------------------------------------------------------------------
(* C30 *)

\* the ContractSets created for the address, by rank
CreatedFor(address) == {i \in DOMAIN created : created[i] = address}

\* C30: the mapping creates at most one ContractSet for a market contract
\* address, over any sequence of calls and however their awaits
\* interleave: every lookup of the address, in either letter case, returns
\* the ContractSet stored for it, and a stored entry is never replaced.
C30_OneContractSetPerAddress ==
  /\ \A address \in {toLowerCase(a) : a \in MarketAddresses} :
       Cardinality(CreatedFor(address)) <= 1
  /\ \A c \in Callers :
       lookup[c].at = "returned" =>
         /\ toLowerCase(lookup[c].address) \in DOMAIN contractSetByAddress
         /\ lookup[c].returned = contractSetByAddress[toLowerCase(lookup[c].address)]
  /\ \A address \in DOMAIN contractSetByAddress :
       \A i \in CreatedFor(address) : contractSetByAddress[address] <= i

====
